---------------------------- MODULE Spec2Model ----------------------------
(***************************************************************************)
(* A model of the summarization engine of GlobalMind                      *)
(* (backend/core/agentic_summarizer.py): the workflow composers           *)
(* SequentialAgent and ParallelAgent, the five specialised agents, the    *)
(* AgenticSummarizer coordinator and its synchronous wrapper; the summary  *)
(* text of the heuristic summarizer (backend/core/ai_summarizer.py); and   *)
(* the hybrid orchestrator as the API (backend/api/main.py) calls it.      *)
(*                                                                         *)
(* Representation of Python values                                         *)
(*   dict      a function whose DOMAIN is the set of keys                  *)
(*   list      a sequence                                                  *)
(*   str       a sequence of tokens, one per whitespace-delimited word;    *)
(*             the token "." is a sentence terminator ([.!?] or a danda)   *)
(*             written directly after the preceding word, "URL" is one     *)
(*             http(s) URL, "..." is the ellipsis.  The fixed messages and *)
(*             labels of the source are single tokens ("msg:...").         *)
(*   float     an integer number of thousandths (0.3 is 300)               *)
(*   datetime.now().isoformat()   the token "<ts>"                         *)
(***************************************************************************)
EXTENDS Integers, Sequences, FiniteSets, TLC

\* ------------------------------------------------------------ bounds
\* Longest search_results list a caller passes.
MaxResults == 2
\* Most sub-agents registered on a composer that is run on its own.
MaxKids == 3
\* Most process_query calls made on one HindiNode.
MaxQueries == 12
\* Most start_federated_round calls made on one FederatedCoordinator.
MaxRoundCalls == 4
\* Most searches made through one RealWorldDataAggregator.
MaxSearches == 2
\* Last tick of the clock.
MaxClock == 4
\* Longest search_results list where only the shape of the result is followed.
MaxListed == 5

\* ------------------------------------------------------------ values
\* Python None, where the code expects a str.
NoneVal == <<"<None>">>
\* A value that cannot be hashed (a JSON array where a source id is expected).
Unhashable == "<list>"
\* The value of datetime.now().isoformat().
Timestamp == "<ts>"

\* dict.get(k, default)
Get(d, k, default) == IF k \in DOMAIN d THEN d[k] ELSE default

\* d[k] = v
Put(d, k, v) == [x \in DOMAIN d \cup {k} |-> IF x = k THEN v ELSE d[x]]

Min(a, b) == IF a < b THEN a ELSE b

Max(a, b) == IF a > b THEN a ELSE b

\* The set of elements of a list.
Range(s) == {s[i] : i \in 1..Len(s)}

\* s[:n] for n >= 0
Take(s, n) == SubSeq(s, 1, Min(n, Len(s)))

\* sorted(s, key=lambda x: x[key], reverse=True): stable, largest key first.
SortedDesc(s, key) ==
    LET n == Len(s)
        rank(i) == 1 + Cardinality({j \in 1..n :
                        \/ s[j][key] > s[i][key]
                        \/ s[j][key] = s[i][key] /\ j < i})
    IN  [r \in 1..n |-> s[CHOOSE i \in 1..n : rank(i) = r]]

\* ------------------------------------------------------------ text
\* str.lower() on one word.
Lower(w) ==
    CASE w = "Climate" -> "climate"
      [] w = "Arctic"  -> "arctic"
      [] OTHER         -> w

\* len(w), in characters.
TokLen(w) ==
    CASE w \in {"at"} -> 2
      [] w \in {"ice", "the", "see", "sun", "URL", "..."} -> 3
      [] w \in {"rate", "warm", "with"} -> 4
      [] w \in {"melts"} -> 5
      [] w \in {"Arctic", "arctic", "alters", "global", "record"} -> 6
      [] w \in {"Climate", "climate", "warming", "weather"} -> 7
      [] w \in {"patterns"} -> 8
      [] w \in {"worldwide"} -> 9
      \* a run of words of that many characters, blanks included
      [] w = "<words:190>" -> 190
      [] w = "<words:200>" -> 200
      [] w = "<words:390>" -> 390
      [] w = "." -> 1
      \* the "AI Summary" label and its translations, without the trailing blank
      [] w = "prefix:english" -> 17
      [] w = "prefix:hindi"   -> 16
      [] w = "prefix:telugu"  -> 17
      \* _get_no_content_message
      [] w = "msg:no_content:english" -> 31
      [] w = "msg:no_content:hindi"   -> 32
      [] w = "msg:no_content:telugu"  -> 29
      [] w = "msg:no_content:marathi" -> 27
      \* the clarifications of _apply_improvements, without the leading blank
      [] w = "msg:limited:english" -> 30
      [] w = "msg:limited:hindi"   -> 26
      [] w = "msg:limited:telugu"  -> 24
      [] w = "msg:limited:marathi" -> 29
      [] OTHER -> 1

\* A terminator is written directly after the word before it.
IsTerminator(w) == w \in {".", "..."}

\* "w in t" for two lower-case words: w is a substring of t.
IsSubstr(w, t) == w = t \/ <<w, t>> \in {<<"warm", "warming">>}

\* len(text) of a str, in characters: the words, one blank between two words.
RECURSIVE CharLen(_)
CharLen(text) ==
    IF text = <<>> THEN 0
    ELSE LET rest == Tail(text)
         IN  TokLen(Head(text))
             + (IF rest # <<>> /\ ~IsTerminator(Head(rest)) THEN 1 ELSE 0)
             + CharLen(rest)

\* set(text.lower().split()): a word followed by a terminator is the word
\* "w." of Python, which equals no plain word.
SplitWords(text) ==
    {Lower(text[i]) : i \in {j \in 1..Len(text) :
        /\ ~IsTerminator(text[j])
        /\ (j < Len(text) => ~IsTerminator(text[j + 1]))}}

\* re.findall(r'\w+', text.lower()): the words, in order.
WordList(text) ==
    LET words == SelectSeq(text, LAMBDA w : ~IsTerminator(w))
    IN  [i \in 1..Len(words) |-> Lower(words[i])]

\* re.split(r'[.!?...]', text), each piece stripped, the empty ones dropped.
RECURSIVE SplitSentences(_, _)
SplitSentences(text, cur) ==
    IF text = <<>> THEN (IF cur = <<>> THEN <<>> ELSE <<cur>>)
    ELSE IF IsTerminator(Head(text))
         THEN (IF cur = <<>> THEN <<>> ELSE <<cur>>) \o SplitSentences(Tail(text), <<>>)
         ELSE SplitSentences(Tail(text), Append(cur, Head(text)))

\* ------------------------------------------------------------ languages
\* The keys of every per-language table of the source.
KnownLanguages == {"hindi", "telugu", "marathi", "english"}

\* table.get(language, table['english']) for a language that can be hashed.
TableLanguage(language) == IF language \in KnownLanguages THEN language ELSE "english"

\* Variant of LookupRaises: table[language] in place of table.get(language,
\* default), which raises KeyError for a language absent from the table.
LookupRaisesUnlessKnown(language) == language \notin KnownLanguages

\* table.get(language, ...) raises TypeError when language cannot be hashed
\* (a caller passing a list or a dict where the tag is expected).
LookupRaises(language) == language = Unhashable

\* ------------------------------------------------------------ DataFetcherAgent
\* _clean_text: None and "" give "", URLs are removed.
CleanText(text) ==
    IF text = NoneVal \/ text = <<>> THEN <<>>
    ELSE SelectSeq(text, LAMBDA w : w # "URL")

\* "word in text.lower()" for a query word.
ContainsWord(text, word) == \E i \in 1..Len(text) : IsSubstr(word, Lower(text[i]))

\* _calculate_initial_relevance, for a result whose title and snippet are str.
CalculateInitialRelevance(result, query) ==
    LET title == Get(result, "title", <<>>)
        snippet == Get(result, "snippet", <<>>)
        query_words == SplitWords(query)
        title_matches == Cardinality({w \in query_words : ContainsWord(title, w)})
        snippet_matches == Cardinality({w \in query_words : ContainsWord(snippet, w)})
    IN  IF Cardinality(query_words) = 0 THEN 500
        ELSE Min(((title_matches * 2 + snippet_matches) * 1000)
                    \div (Cardinality(query_words) * 3), 1000)

\* The AttributeError of None.lower() in _calculate_initial_relevance.
RelevanceRaises(result, query) ==
    \/ Get(result, "title", <<>>) = NoneVal
    \/ Get(result, "snippet", <<>>) = NoneVal
    \/ query = NoneVal

\* Variant of DataFetcher that leaves out the results without a snippet.
DataFetcherSkipsEmpty(context) ==
    LET search_results ==
            SelectSeq(Get(context, "search_results", <<>>),
                      LAMBDA result : Get(result, "snippet", <<>>) # <<>>)
        query == Get(context, "query", <<>>)
        processed_results ==
            [idx \in 1..Len(search_results) |->
                [title |-> CleanText(Get(search_results[idx], "title", <<>>)),
                 snippet |-> CleanText(Get(search_results[idx], "snippet", <<>>)),
                 source |-> Get(search_results[idx], "source", "unknown"),
                 position |-> idx - 1,
                 relevance_score |-> CalculateInitialRelevance(search_results[idx], query)]]
    IN  IF \E idx \in 1..Len(search_results) : RelevanceRaises(search_results[idx], query)
        THEN [ok |-> FALSE, error |-> "AttributeError", context |-> context]
        ELSE [ok |-> TRUE, error |-> "",
              context |-> Put(Put(context, "processed_results", processed_results),
                              "fetch_timestamp", Timestamp)]

\* DataFetcherAgent.run_async
DataFetcher(context) ==
    LET search_results == Get(context, "search_results", <<>>)
        query == Get(context, "query", <<>>)
        processed_results ==
            [idx \in 1..Len(search_results) |->
                [title |-> CleanText(Get(search_results[idx], "title", <<>>)),
                 snippet |-> CleanText(Get(search_results[idx], "snippet", <<>>)),
                 source |-> Get(search_results[idx], "source", "unknown"),
                 position |-> idx - 1,
                 relevance_score |-> CalculateInitialRelevance(search_results[idx], query)]]
    IN  IF \E idx \in 1..Len(search_results) : RelevanceRaises(search_results[idx], query)
        THEN [ok |-> FALSE, error |-> "AttributeError", context |-> context]
        ELSE [ok |-> TRUE, error |-> "",
              context |-> Put(Put(context, "processed_results", processed_results),
                              "fetch_timestamp", Timestamp)]

\* ------------------------------------------------------------ ContentAnalyzerAgent
\* Variant of StopWords: stop_words.get(language, stop_words['english']).
StopWordsEnglishDefault(language) ==
    IF language \notin {"hindi", "telugu", "marathi"}
    THEN {"the", "a", "an", "and", "or", "but", "in", "on", "at", "to", "for",
          "of", "with", "by"}
    ELSE {}

\* stop_words.get(language, set()) of _extract_themes: the words of each table
\* that occur in the model's vocabulary (the Hindi, Telugu and Marathi tables
\* hold no word of it).
StopWords(language) ==
    IF language = "english"
    THEN {"the", "a", "an", "and", "or", "but", "in", "on", "at", "to", "for",
          "of", "with", "by"}
    ELSE {}

\* _extract_sentences
ExtractSentences(text) == SplitSentences(text, <<>>)

\* ContentAnalyzerAgent._score_sentence
ScoreSentence(sentence, query, position, language) ==
    LET position_score == Max(0, ((5 - position) * 300) \div 5)
        length_score == (Min(Len(sentence), 15) * 200) \div 15
        query_words == SplitWords(query)
        sentence_words == SplitWords(sentence)
        keyword_score ==
            IF query_words # {}
            THEN (Cardinality(query_words \cap sentence_words) * 500)
                    \div Cardinality(query_words)
            ELSE 0
    IN  Min(position_score + length_score + keyword_score, 1000)

\* _extract_themes: the first 3 words longer than 3 characters that are no
\* stop word of the language.
ExtractThemes(sentence, language) ==
    Take(SelectSeq(WordList(sentence),
                   LAMBDA w : TokLen(w) > 3 /\ w \notin StopWords(language)), 3)

\* _extract_entities: the words matching [A-Z][a-z]+
ExtractEntities(sentence) == SelectSeq(sentence, LAMBDA w : Lower(w) # w)

\* The sentences of one processed result that have more than 4 words.
ResultSentences(result) ==
    SelectSeq(ExtractSentences(result.title \o <<".">> \o result.snippet),
              LAMBDA sentence : Len(sentence) > 4)

\* The (result, sentence) pairs the loops of run_async visit, in order.
RECURSIVE VisitedSentences(_)
VisitedSentences(processed_results) ==
    IF processed_results = <<>> THEN <<>>
    ELSE LET result == Head(processed_results)
             mine == ResultSentences(result)
         IN  [i \in 1..Len(mine) |-> [result |-> result, text |-> mine[i]]]
             \o VisitedSentences(Tail(processed_results))

\* Counter.update(words) followed over a list of words: each word with its
\* count, in the order of first insertion.
RECURSIVE CountWords(_, _)
CountWords(words, counter) ==
    IF words = <<>> THEN counter
    ELSE LET w == Head(words)
             at == {i \in 1..Len(counter) : counter[i].word = w}
         IN  CountWords(Tail(words),
                IF at = {} THEN Append(counter, [word |-> w, count |-> 1])
                ELSE [i \in 1..Len(counter) |->
                        IF i \in at THEN [word |-> w, count |-> counter[i].count + 1]
                        ELSE counter[i]])

\* s1 + s2 + ... for a list of lists
RECURSIVE Flatten(_)
Flatten(lists) == IF lists = <<>> THEN <<>> ELSE Head(lists) \o Flatten(Tail(lists))

\* list(set(xs)): the distinct elements; the order Python gives them is fixed
\* within one interpreter and is taken to be that of first occurrence.
RECURSIVE Distinct(_)
Distinct(xs) ==
    IF xs = <<>> THEN <<>>
    ELSE LET front == Distinct(SubSeq(xs, 1, Len(xs) - 1))
             last == xs[Len(xs)]
         IN  IF last \in Range(front) THEN front ELSE Append(front, last)

\* ContentAnalyzerAgent.run_async
ContentAnalyzer(context) ==
    LET processed_results == Get(context, "processed_results", <<>>)
        query == Get(context, "query", <<>>)
        language == Get(context, "language", "english")
        visited == VisitedSentences(processed_results)
        sentences ==
            [i \in 1..Len(visited) |->
                [text |-> visited[i].text,
                 score |-> ScoreSentence(visited[i].text, query,
                                         visited[i].result.position, language),
                 source |-> visited[i].result.source,
                 position |-> visited[i].result.position]]
        themes == CountWords(
            Flatten([i \in 1..Len(visited) |-> ExtractThemes(visited[i].text, language)]),
            <<>>)
        entities == Flatten([i \in 1..Len(visited) |-> ExtractEntities(visited[i].text)])
    IN  IF visited # <<>> /\ query = NoneVal
        THEN [ok |-> FALSE, error |-> "AttributeError", context |-> context]
        ELSE IF visited # <<>> /\ LookupRaises(language)
        THEN [ok |-> FALSE, error |-> "TypeError", context |-> context]
        ELSE [ok |-> TRUE, error |-> "",
              context |->
                Put(Put(Put(Put(context,
                    "analyzed_sentences", SortedDesc(sentences, "score")),
                    "themes", Take(SortedDesc(themes, "count"), 10)),
                    "entities", Distinct(entities)),
                    "analysis_timestamp", Timestamp)]

\* ------------------------------------------------------------ SummaryGeneratorAgent
\* max_length of _compose_summary
MaxLength == 400

\* _extract_themes_from_text: the first 3 words longer than 4 characters.
ExtractThemesFromText(text) ==
    Take(SelectSeq(WordList(text), LAMBDA w : TokLen(w) > 4), 3)

\* The loop of _select_summary_sentences over the candidates left; a source
\* that cannot be hashed raises TypeError at the set lookup.
RECURSIVE SelectLoop(_, _, _, _)
SelectLoop(candidates, selected, used_sources, theme_coverage) ==
    IF candidates = <<>> \/ Len(selected) >= 3
    THEN [ok |-> TRUE, selected |-> selected]
    ELSE LET sentence_data == Head(candidates)
             source == sentence_data.source
             sentence_themes == Range(ExtractThemesFromText(sentence_data.text))
             source_diversity == source \notin used_sources \/ Len(selected) < 2
             theme_diversity ==
                 theme_coverage \cap sentence_themes = {} \/ Len(selected) < 2
         IN  IF source = Unhashable
             THEN [ok |-> FALSE, selected |-> selected]
             ELSE IF source_diversity /\ (theme_diversity \/ sentence_data.score > 700)
                  THEN SelectLoop(Tail(candidates), Append(selected, sentence_data),
                                  used_sources \cup {source},
                                  theme_coverage \cup sentence_themes)
                  ELSE SelectLoop(Tail(candidates), selected, used_sources,
                                  theme_coverage)

\* Variant of SelectSummarySentences that scans the whole list instead of
\* sentences[:10].
SelectSummarySentencesUncapped(sentences, themes) ==
    IF sentences = <<>> THEN [ok |-> TRUE, selected |-> <<>>]
    ELSE SelectLoop(sentences, <<>>, {}, {})

\* _select_summary_sentences
SelectSummarySentences(sentences, themes) ==
    IF sentences = <<>> THEN [ok |-> TRUE, selected |-> <<>>]
    ELSE SelectLoop(Take(sentences, 10), <<>>, {}, {})

\* _get_no_content_message
GetNoContentMessage(language) ==
    CASE TableLanguage(language) = "hindi"   -> <<"msg:no_content:hindi">>
      [] TableLanguage(language) = "telugu"  -> <<"msg:no_content:telugu">>
      [] TableLanguage(language) = "marathi" -> <<"msg:no_content:marathi">>
      [] OTHER                               -> <<"msg:no_content:english">>

\* text.split('.'): the pieces between terminators, the empty ones kept.
RECURSIVE SplitOnDot(_, _)
SplitOnDot(text, cur) ==
    IF text = <<>> THEN <<cur>>
    ELSE IF IsTerminator(Head(text))
         THEN <<cur>> \o SplitOnDot(Tail(text), <<>>)
         ELSE SplitOnDot(Tail(text), Append(cur, Head(text)))

\* The cut of _compose_summary: the pieces are added, each followed by ". ",
\* until the next one would pass max_length characters.
RECURSIVE CutAtBoundary(_, _, _, _)
CutAtBoundary(pieces, first, cut, cut_len) ==
    IF pieces = <<>> THEN cut
    ELSE LET piece == Head(pieces)
             piece_len == CharLen(piece) + (IF first \/ piece = <<>> THEN 0 ELSE 1)
         IN  IF cut_len + piece_len > MaxLength THEN cut
             ELSE CutAtBoundary(Tail(pieces), FALSE, cut \o piece \o <<".">>,
                                cut_len + piece_len + 2)

\* _compose_summary
ComposeSummary(sentences, language) ==
    IF sentences = <<>> THEN GetNoContentMessage(language)
    ELSE LET summary == Flatten([i \in 1..Len(sentences) |-> sentences[i].text])
             cut_summary == CutAtBoundary(SplitOnDot(summary, <<>>), TRUE, <<>>, 0)
         IN  IF CharLen(summary) > MaxLength
             THEN (IF cut_summary = <<>> THEN <<"...">> ELSE cut_summary)
             ELSE summary

\* _format_summary_for_language; the Marathi prefix of the source is the
\* same string as the Hindi one.
FormatSummaryForLanguage(summary, language) ==
    (CASE language \in {"hindi", "marathi"} -> <<"prefix:hindi">>
       [] language = "telugu"                -> <<"prefix:telugu">>
       [] OTHER                              -> <<"prefix:english">>) \o summary

\* SummaryGeneratorAgent.run_async
SummaryGenerator(context) ==
    LET analyzed_sentences == Get(context, "analyzed_sentences", <<>>)
        themes == Get(context, "themes", <<>>)
        language == Get(context, "language", "english")
        selection == SelectSummarySentences(analyzed_sentences, themes)
        summary_text == ComposeSummary(selection.selected, language)
    IN  IF ~selection.ok \/ LookupRaises(language)
        THEN [ok |-> FALSE, error |-> "TypeError", context |-> context]
        ELSE [ok |-> TRUE, error |-> "",
              context |->
                Put(Put(Put(context,
                    "generated_summary", FormatSummaryForLanguage(summary_text, language)),
                    "summary_sentences", selection.selected),
                    "generation_timestamp", Timestamp)]

\* ------------------------------------------------------------ CriticAgent
\* _analyze_summary_quality
AnalyzeSummaryQuality(summary, query, themes) ==
    LET length == CharLen(summary)
        length_score == IF 100 <= length /\ length <= 500 THEN 300
                        ELSE IF length > 50 THEN 150 ELSE 0
        query_words == SplitWords(query)
        summary_words == SplitWords(summary)
        relevance_score ==
            IF query_words # {}
            THEN (Cardinality(query_words \cap summary_words) * 400)
                    \div Cardinality(query_words)
            ELSE 0
        theme_words == {themes[i].word : i \in 1..Len(themes)}
        coverage_score ==
            IF themes # <<>>
            THEN (Cardinality(theme_words \cap summary_words) * 300)
                    \div Cardinality(theme_words)
            ELSE 0
    IN  IF summary = <<>> THEN 0
        ELSE Min(length_score + relevance_score + coverage_score, 1000)

\* _generate_improvement_suggestions
GenerateImprovementSuggestions(summary, query, language) ==
    (IF CharLen(summary) < 50 THEN <<"summary_too_short">>
     ELSE IF CharLen(summary) > 600 THEN <<"summary_too_long">>
     ELSE <<>>)
    \o (IF SplitWords(query) # {} /\ SplitWords(query) \cap SplitWords(summary) = {}
        THEN <<"low_query_relevance">>
        ELSE <<>>)

\* '. '.join(pieces) + '.'
RECURSIVE JoinWithDot(_)
JoinWithDot(pieces) ==
    IF pieces = <<>> THEN <<".">>
    ELSE Head(pieces) \o <<".">> \o
         (IF Len(pieces) = 1 THEN <<>> ELSE JoinWithDot(Tail(pieces)))

\* _apply_improvements
ApplyImprovements(summary, suggestions, language) ==
    IF "summary_too_long" \in Range(suggestions)
    THEN (IF Len(SplitOnDot(summary, <<>>)) > 3
          THEN JoinWithDot(Take(SplitOnDot(summary, <<>>), 3))
          ELSE summary)
    ELSE IF "summary_too_short" \in Range(suggestions)
         THEN summary \o
              (CASE TableLanguage(language) = "hindi"   -> <<"msg:limited:hindi">>
                 [] TableLanguage(language) = "telugu"  -> <<"msg:limited:telugu">>
                 [] TableLanguage(language) = "marathi" -> <<"msg:limited:marathi">>
                 [] OTHER                               -> <<"msg:limited:english">>)
         ELSE summary

\* Variant of Critic that reads context['generated_summary'] instead of
\* context.get('generated_summary', ''): KeyError when the key is absent.
CriticRequiresSummary(context) ==
    LET summary == Get(context, "generated_summary", <<>>)
        query == Get(context, "query", <<>>)
        language == Get(context, "language", "english")
        themes == Get(context, "themes", <<>>)
        suggestions == GenerateImprovementSuggestions(summary, query, language)
    IN  IF "generated_summary" \notin DOMAIN context
        THEN [ok |-> FALSE, error |-> "KeyError", context |-> context]
        ELSE IF query = NoneVal
        THEN [ok |-> FALSE, error |-> "AttributeError", context |-> context]
        ELSE IF "summary_too_short" \in Range(suggestions) /\ LookupRaises(language)
        THEN [ok |-> FALSE, error |-> "TypeError", context |-> context]
        ELSE [ok |-> TRUE, error |-> "",
              context |->
                Put(Put(Put(Put(context,
                    "final_summary", ApplyImprovements(summary, suggestions, language)),
                    "quality_score", AnalyzeSummaryQuality(summary, query, themes)),
                    "critic_suggestions", suggestions),
                    "critique_timestamp", Timestamp)]

\* CriticAgent.run_async; query.lower() raises AttributeError on None.
Critic(context) ==
    LET summary == Get(context, "generated_summary", <<>>)
        query == Get(context, "query", <<>>)
        language == Get(context, "language", "english")
        themes == Get(context, "themes", <<>>)
        suggestions == GenerateImprovementSuggestions(summary, query, language)
    IN  IF query = NoneVal
        THEN [ok |-> FALSE, error |-> "AttributeError", context |-> context]
        ELSE IF "summary_too_short" \in Range(suggestions) /\ LookupRaises(language)
        THEN [ok |-> FALSE, error |-> "TypeError", context |-> context]
        ELSE [ok |-> TRUE, error |-> "",
              context |->
                Put(Put(Put(Put(context,
                    "final_summary", ApplyImprovements(summary, suggestions, language)),
                    "quality_score", AnalyzeSummaryQuality(summary, query, themes)),
                    "critic_suggestions", suggestions),
                    "critique_timestamp", Timestamp)]

\* ------------------------------------------------------------ InsightExtractorAgent
\* _format_themes_insight
FormatThemesInsight(themes, language) ==
    [insight |-> "key_topics", language |-> TableLanguage(language), themes |-> themes]

\* _format_source_insight
FormatSourceInsight(count, language) ==
    [insight |-> "source_diversity", language |-> TableLanguage(language), count |-> count]

\* _format_entity_insight
FormatEntityInsight(entities, language) ==
    [insight |-> "key_entities", language |-> TableLanguage(language), entities |-> entities]

\* InsightExtractorAgent.run_async; set(sources) raises TypeError on a source
\* that cannot be hashed.
InsightExtractor(context) ==
    LET themes == Get(context, "themes", <<>>)
        entities == Get(context, "entities", <<>>)
        processed_results == Get(context, "processed_results", <<>>)
        language == Get(context, "language", "english")
        sources == [i \in 1..Len(processed_results) |-> processed_results[i].source]
        unique_sources == Cardinality(Range(sources))
        insights ==
            (IF themes # <<>>
             THEN <<FormatThemesInsight(
                        [i \in 1..Min(5, Len(themes)) |-> themes[i].word], language)>>
             ELSE <<>>)
            \o (IF unique_sources > 1
                THEN <<FormatSourceInsight(unique_sources, language)>>
                ELSE <<>>)
            \o (IF entities # <<>>
                THEN <<FormatEntityInsight(Take(entities, 3), language)>>
                ELSE <<>>)
    IN  IF Unhashable \in Range(sources) \/ (insights # <<>> /\ LookupRaises(language))
        THEN [ok |-> FALSE, error |-> "TypeError", context |-> context]
        ELSE [ok |-> TRUE, error |-> "",
              context |-> Put(Put(context, "key_insights", insights),
                              "insight_timestamp", Timestamp)]

\* ------------------------------------------------------------ AgenticSummarizer results
\* _compile_final_result
CompileFinalResult(context) ==
    LET parallel_results == Get(context, "parallel_results", <<>>)
        content_analysis == Get(parallel_results, "ContentAnalyzer", <<>>)
        insight_extraction == Get(parallel_results, "InsightExtractor", <<>>)
        processed_results == Get(context, "processed_results", <<>>)
    IN  [query |-> Get(context, "query", <<>>),
         language |-> Get(context, "language", "english"),
         ai_summary |-> Get(context, "final_summary", <<>>),
         key_insights |-> Get(insight_extraction, "key_insights", <<>>),
         confidence_score |-> Get(context, "quality_score", 0),
         source_count |-> Len(processed_results),
         sources |-> [i \in 1..Min(3, Len(processed_results)) |->
                        Get(processed_results[i], "source", "Unknown")],
         timestamp |-> Timestamp,
         summarization_method |-> "multi_agent_agentic",
         execution_details |->
            [themes_found |-> Len(Get(content_analysis, "themes", <<>>)),
             entities_found |-> Len(Get(content_analysis, "entities", <<>>)),
             sentences_analyzed |-> Len(Get(content_analysis, "analyzed_sentences", <<>>)),
             critic_suggestions |-> Get(context, "critic_suggestions", <<>>),
             workflow_stages |-> <<"fetch", "analyze", "generate", "critique">>]]

\* Variant of GenerateErrorResult that reports the counts and the score the
\* context holds instead of zeros.
GenerateErrorResultScored(context, error) ==
    [query |-> Get(context, "query", <<>>),
     language |-> Get(context, "language", "english"),
     ai_summary |-> <<"msg:error:english">>,
     key_insights |-> <<>>,
     confidence_score |-> Get(context, "quality_score", 500),
     source_count |-> Len(Get(context, "search_results", <<>>)),
     sources |-> <<>>,
     timestamp |-> Timestamp,
     summarization_method |-> "error_fallback",
     error |-> error]

\* _generate_error_result, for a language that can be hashed.
GenerateErrorResult(context, error) ==
    [query |-> Get(context, "query", <<>>),
     language |-> Get(context, "language", "english"),
     ai_summary |->
        (CASE TableLanguage(Get(context, "language", "english")) = "hindi"
                    -> <<"msg:error:hindi">>
           [] TableLanguage(Get(context, "language", "english")) = "telugu"
                    -> <<"msg:error:telugu">>
           [] TableLanguage(Get(context, "language", "english")) = "marathi"
                    -> <<"msg:error:marathi">>
           [] OTHER -> <<"msg:error:english">>),
     key_insights |-> <<>>,
     confidence_score |-> 0,
     source_count |-> 0,
     sources |-> <<>>,
     timestamp |-> Timestamp,
     summarization_method |-> "error_fallback",
     error |-> error]

\* _generate_no_results_summary, for a language that can be hashed.
GenerateNoResultsSummary(query, language) ==
    [query |-> query,
     language |-> language,
     ai_summary |->
        (CASE TableLanguage(language) = "hindi"   -> <<"msg:no_results:hindi">>
           [] TableLanguage(language) = "telugu"  -> <<"msg:no_results:telugu">>
           [] TableLanguage(language) = "marathi" -> <<"msg:no_results:marathi">>
           [] OTHER                               -> <<"msg:no_results:english">>),
     key_insights |-> <<>>,
     confidence_score |-> 0,
     source_count |-> 0,
     sources |-> <<>>,
     timestamp |-> Timestamp,
     summarization_method |-> "no_results_fallback"]

\* ------------------------------------------------------------ agents
\* Sub-agents a caller of the composers may register besides the five agents
\* AgenticSummarizer creates: what a
\* BaseAgent subclass can do to the context it is given.
\*   Rebinder     context['query'] = ...           (a top-level assignment)
\*   Appender     context['processed_results'].append(...)   (in place)
\*   Snapshotter  context['snapshot'] = list(context['processed_results'])
\*   Failer       raise
ProbeNames == {"Rebinder", "Appender", "Snapshotter", "Failer"}

\* The element the Appender appends.
ProbeItem ==
    [title |-> <<"see">>, snippet |-> <<>>, source |-> "probe", position |-> 0,
     relevance_score |-> 0]

\* BaseAgent.run_async of the four probes.
Probe(name, context) ==
    CASE name = "Rebinder" ->
            [ok |-> TRUE, error |-> "", context |-> Put(context, "query", <<"warm">>)]
      [] name = "Appender" ->
            IF "processed_results" \notin DOMAIN context
            THEN [ok |-> FALSE, error |-> "KeyError", context |-> context]
            ELSE [ok |-> TRUE, error |-> "",
                  context |-> Put(context, "processed_results",
                                  Append(context["processed_results"], ProbeItem))]
      [] name = "Snapshotter" ->
            [ok |-> TRUE, error |-> "",
             context |-> Put(context, "snapshot", Get(context, "processed_results", <<>>))]
      [] OTHER ->
            [ok |-> FALSE, error |-> "ProbeError", context |-> context]

\* The keys an agent changes through the object the context refers to
\* (list.append), as opposed to the keys it assigns.
MutatedInPlace(name) ==
    IF name = "Appender" THEN {"processed_results"} ELSE {}

\* The keys an agent assigns in the dict it was given (context[key] = ...).
Assigned(name) ==
    CASE name = "DataFetcher"      -> {"processed_results", "fetch_timestamp"}
      [] name = "ContentAnalyzer"  -> {"analyzed_sentences", "themes", "entities",
                                       "analysis_timestamp"}
      [] name = "InsightExtractor" -> {"key_insights", "insight_timestamp"}
      [] name = "SummaryGenerator" -> {"generated_summary", "summary_sentences",
                                       "generation_timestamp"}
      [] name = "Critic"           -> {"final_summary", "quality_score",
                                       "critic_suggestions", "critique_timestamp"}
      [] name = "Rebinder"         -> {"query"}
      [] name = "Snapshotter"      -> {"snapshot"}
      [] OTHER                     -> {}

\* agent.run_async(context) of a leaf agent.  An agent named in faults
\* raises an exception the model does not derive from the data (MemoryError,
\* RecursionError, ...) before it changes anything.
RunAgent(name, context, faults) ==
    IF name \in faults THEN [ok |-> FALSE, error |-> "Fault", context |-> context]
    ELSE CASE name = "DataFetcher"      -> DataFetcher(context)
           [] name = "ContentAnalyzer"  -> ContentAnalyzer(context)
           [] name = "InsightExtractor" -> InsightExtractor(context)
           [] name = "SummaryGenerator" -> SummaryGenerator(context)
           [] name = "Critic"           -> Critic(context)
           [] OTHER                     -> Probe(name, context)

\* The keys whose values are lists or dicts: objects a copy of the dict
\* still refers to.
ContainerKeys ==
    {"search_results", "processed_results", "analyzed_sentences", "themes",
     "entities", "key_insights", "summary_sentences", "critic_suggestions",
     "parallel_results", "snapshot"}

\* context.copy(): a new dict with the same values; "shared" names the keys
\* of the copy that refer to the very objects of the original.
ContextCopy(context) ==
    [context |-> context, shared |-> DOMAIN context \cap ContainerKeys]

\* Variant of SubAgents in which main_workflow registers generation_phase
\* before analysis_phase.
SubAgentsGenerationFirst(agent) ==
    CASE agent = "MainWorkflow"    -> <<"DataFetcher", "GenerationPhase", "AnalysisPhase">>
      [] agent = "AnalysisPhase"   -> <<"ContentAnalyzer", "InsightExtractor">>
      [] agent = "GenerationPhase" -> <<"SummaryGenerator", "Critic">>
      [] OTHER                     -> <<>>

\* AgenticSummarizer._setup_workflow: sub_agents of each workflow agent.
SubAgents(agent) ==
    CASE agent = "MainWorkflow"    -> <<"DataFetcher", "AnalysisPhase", "GenerationPhase">>
      [] agent = "AnalysisPhase"   -> <<"ContentAnalyzer", "InsightExtractor">>
      [] agent = "GenerationPhase" -> <<"SummaryGenerator", "Critic">>
      [] OTHER                     -> <<>>

\* The class of each workflow agent of _setup_workflow.
AgentClass(agent) ==
    CASE agent \in {"MainWorkflow", "GenerationPhase"} -> "SequentialAgent"
      [] agent = "AnalysisPhase"                       -> "ParallelAgent"
      [] OTHER                                         -> "leaf"

\* The steps a SequentialAgent takes: "context = await agent.run_async(context)"
\* runs a sub-agent inside the caller's own task, so a SequentialAgent nested
\* in a SequentialAgent contributes its own steps in place.  A step is a leaf
\* agent or a whole ParallelAgent.
RECURSIVE SequentialSteps(_)
SequentialSteps(sub_agents) ==
    IF sub_agents = <<>> THEN <<>>
    ELSE LET agent == Head(sub_agents)
         IN  (IF AgentClass(agent) = "SequentialAgent"
              THEN SequentialSteps(SubAgents(agent))
              ELSE <<[agent |-> agent,
                      parallel |-> AgentClass(agent) = "ParallelAgent",
                      sub_agents |-> SubAgents(agent)]>>)
             \o SequentialSteps(Tail(sub_agents))

\* ------------------------------------------------------------ state
VARIABLES
    entry,         \* the entry point called: "async" (AgenticSummarizer.
                   \* summarize_search_results), "sync" (summarize_search_results_sync)
                   \* or "compose" (run_async of one composer on its own)
    loop_running,  \* whether the calling thread already runs an event loop
    args,          \* [search_results, query, language, max_results] of the call
    steps,         \* the steps of the SequentialAgent being run
    pc,            \* where the call is
    ip,            \* index in steps of the step to run next
    ctx,           \* the dict "context" of the composer being run
    ctx0,          \* value of that dict when the composer was called
    tasks,         \* ParallelAgent: per sub-agent, the task and its agent_context
    results,       \* ParallelAgent: the local dict "results"
    awaited,       \* ParallelAgent: number of tasks awaited so far
    exc,           \* the exception being propagated, "" if none
    log,           \* run_async calls, returns and raises of leaf agents, in order
    ret,           \* the value returned to the caller, NoneVal before
    coro,          \* the coroutine object of summarize_search_results: "none",
                   \* "created", "running", "finished", or "discarded" (released
                   \* without having been started)
    config,        \* hybrid_summarizer: use_agentic_by_default and the thresholds
    lock,          \* who holds the lock on config: "free", "summarize", "configure"
    req,           \* the summarize call on hybrid_summarizer being served
    upd,           \* the call of update_summarizer_config being served
    applied,       \* config after each configure call that completed
    info,          \* what get_summarizer_info returned last, NoConfig before
    hindi_node,    \* the HindiNode in use: "backend" (backend/language_nodes),
                   \* "federated" (globalMind-federated-search), "none"
    performance_metrics,  \* HindiNode: total_queries and successful_queries
    query_history, \* HindiNode: len(self.query_history)
    answers,       \* process_query calls that returned, and those with an error
    is_training,   \* FederatedCoordinator.is_training
    federation_round,     \* FederatedCoordinator.federation_round
    global_model_state,   \* FederatedCoordinator: whether set, and its "round"
    rounds,        \* the start_federated_round calls made, each with its position
    ai_summarizer, \* RealWorldDataAggregator: whether ai_summarizer is set
    cache,         \* RealWorldDataAggregator.cache: key -> (result, timestamp)
    clock,         \* time.time(), in units of cache_timeout / CacheTimeout
    work,          \* searches and summarizations performed so far
    answer         \* the last get_real_world_context call: its arguments, what
                   \* came back and from where ("cache", "search", "raised")

\* The state of the orchestrator and of its callers.
hybVars == <<config, lock, req, upd, applied, info>>

\* The state of a call of the pipeline or of a composer.
pipeVars ==
    <<entry, loop_running, args, steps, pc, ip, ctx, ctx0, tasks, results,
      awaited, exc, log, ret, coro>>

\* The state of a HindiNode and of its callers.
nodeVars == <<hindi_node, performance_metrics, query_history, answers>>

\* The state of a FederatedCoordinator and of the calls made on it.
fedVars == <<is_training, federation_round, global_model_state, rounds>>

\* The state of a RealWorldDataAggregator, of the clock and of its caller.
cacheVars == <<ai_summarizer, cache, clock, work, answer>>

auxVars == <<nodeVars, fedVars, cacheVars>>

vars == <<pipeVars, hybVars, auxVars>>

\* No HindiNode in the run.
NodeIdle ==
    /\ hindi_node = "none"
    /\ performance_metrics = [total_queries |-> 0, successful_queries |-> 0]
    /\ query_history = 0
    /\ answers = [calls |-> 0, errors |-> 0]

\* No FederatedCoordinator in the run.
FederationIdle ==
    /\ is_training = FALSE
    /\ federation_round = 0
    /\ global_model_state = [set |-> FALSE, round |-> 0]
    /\ rounds = <<>>

\* What a get_real_world_context call that raised has returned: nothing.
NoResult == [query |-> <<>>, language |-> "", serial |-> 0, total_results |-> 0]

\* No RealWorldDataAggregator in the run.
CacheIdle ==
    /\ ai_summarizer = FALSE
    /\ cache = <<>>
    /\ clock = 0
    /\ work = [searches |-> 0, summaries |-> 0]
    /\ answer = [query |-> <<>>, language |-> "", result |-> NoResult,
                 origin |-> "none"]

AuxIdle == NodeIdle /\ FederationIdle /\ CacheIdle

\* ------------------------------------------------------------ inputs
RecA ==
    [title |-> <<"Climate", "warming">>,
     snippet |-> <<"climate", "change", "alters", "global", "weather", "patterns",
                   "worldwide">>,
     source |-> "a.org"]

RecB ==
    [title |-> <<"Arctic", "ice">>,
     snippet |-> <<"the", "Arctic", "ice", "melts", "at", "record", "rate", ".",
                   "see", "URL">>,
     source |-> "b.com"]

\* A record whose snippet holds an English stop word of more than 3 letters.
RecWith ==
    [title |-> <<"Arctic", "ice">>,
     snippet |-> <<"ice", "melts", "with", "the", "sun">>,
     source |-> "c.net"]

\* A record with an empty snippet and neither title nor source.
RecSparse == [snippet |-> <<>>]

\* A record whose title is None.
RecNull == [title |-> NoneVal, snippet |-> <<"climate">>, source |-> "a.org"]

\* A record whose source is a list.
RecBadSrc == [title |-> <<"Arctic">>, snippet |-> <<"ice">>, source |-> Unhashable]

\* The records a caller passes in search_results.
Records == {RecA, RecSparse, RecNull, RecBadSrc}

SeqsUpTo(S, n) == UNION {[1..k -> S] : k \in 0..n}

Queries == {<<"climate", "warm">>, NoneVal}

\* Language arguments: two of the table, one absent from it, one that is no str.
Languages == {"english", "hindi", "klingon", Unhashable}

MaxResultsArgs == {0, 1, 3}

NoArgs == [search_results |-> <<>>, query |-> <<>>, language |-> "english",
           max_results |-> 3]

NoTasks == <<>>

\* ------------------------------------------------------------ SequentialAgent
LeafStep(agent) == [agent |-> agent, parallel |-> FALSE, sub_agents |-> <<>>]

Event(ev, agent, context) == [ev |-> ev, agent |-> agent, context |-> context]

\* The sets of agents that raise a fault in one run of agent "name": faults
\* are injected in the stages of a summarize call.
FaultChoices(name) == IF entry = "compose" THEN {{}} ELSE {{}, {name}}

\* for agent in self.sub_agents: ... await agent.run_async(context), the call
\* of a leaf agent.
SeqCall ==
    /\ pc = "seq"
    /\ ip <= Len(steps)
    /\ ~steps[ip].parallel
    /\ pc' = "child"
    /\ log' = Append(log, Event("call", steps[ip].agent, ctx))
    /\ UNCHANGED <<auxVars, hybVars,
                   coro, entry, loop_running, args, steps, ip, ctx, ctx0, tasks, results,
                   awaited, exc, ret>>

\* Variant of SeqChildEnd: "await agent.run_async(context)" with the result
\* dropped, the next sub-agent getting the dict as it was.
SeqChildEndDiscard ==
    /\ pc = "child"
    /\ LET r == RunAgent(steps[ip].agent, ctx, {})
       IN  IF r.ok
           THEN /\ pc' = "seq"
                /\ ip' = ip + 1
                /\ exc' = exc
                /\ log' = Append(log, Event("return", steps[ip].agent, r.context))
           ELSE /\ pc' = "raised"
                /\ ip' = ip
                /\ exc' = r.error
                /\ log' = Append(log, Event("raise", steps[ip].agent, ctx))
    /\ UNCHANGED <<auxVars, hybVars,
                   coro, entry, loop_running, args, steps, ctx, ctx0, tasks, results,
                   awaited, ret>>

\* Variant of SeqChildEnd with a try/except around the await that records the
\* failure under 'errors' and goes on with the next sub-agent.
SeqChildEndSwallow ==
    /\ pc = "child"
    /\ LET r == RunAgent(steps[ip].agent, ctx, {})
       IN  /\ ctx' = IF r.ok THEN r.context
                     ELSE Put(ctx, "errors", Append(Get(ctx, "errors", <<>>), r.error))
           /\ log' = Append(log, Event(IF r.ok THEN "return" ELSE "raise",
                                       steps[ip].agent, r.context))
    /\ ip' = ip + 1
    /\ pc' = "seq"
    /\ UNCHANGED <<auxVars, hybVars,
                   coro, entry, loop_running, args, steps, ctx0, tasks, results, awaited,
                   exc, ret>>

\* context = await agent.run_async(context): the leaf agent returns its
\* context, or raises; nothing in SequentialAgent.run_async catches.
SeqChildEnd ==
    /\ pc = "child"
    /\ \E faults \in FaultChoices(steps[ip].agent) :
          LET r == RunAgent(steps[ip].agent, ctx, faults)
          IN  IF r.ok
              THEN /\ ctx' = r.context
                   /\ ip' = ip + 1
                   /\ pc' = "seq"
                   /\ exc' = exc
                   /\ log' = Append(log, Event("return", steps[ip].agent, r.context))
              ELSE /\ ctx' = ctx
                   /\ ip' = ip
                   /\ pc' = "raised"
                   /\ exc' = r.error
                   /\ log' = Append(log, Event("raise", steps[ip].agent, ctx))
    /\ UNCHANGED <<auxVars, hybVars,
                   coro, entry, loop_running, args, steps, ctx0, tasks, results,
                   awaited, ret>>

\* return context, after the last sub-agent.
SeqReturn ==
    /\ pc = "seq"
    /\ ip > Len(steps)
    /\ pc' = "returned"
    /\ UNCHANGED <<auxVars, hybVars,
                   coro, entry, loop_running, args, steps, ip, ctx, ctx0, tasks, results,
                   awaited, exc, log, ret>>

\* ------------------------------------------------------------ ParallelAgent
\* One task: its state, the dict agent_context it was created with, the
\* keys of that dict still referring to the objects of the incoming context,
\* and the exception it ended with.
NewTask(copy) ==
    [state |-> "pending", context |-> copy.context, shared |-> copy.shared,
     error |-> ""]

\* The task of sub-agent i runs agent.run_async(agent_context).  A change made
\* in place to an object of the incoming context shows in every dict that
\* still refers to that object: the incoming context and the other tasks'.
RunTask(ts, outer, agents, i, faults) ==
    LET r == RunAgent(agents[i], ts[i].context, faults)
        hit == IF r.ok THEN MutatedInPlace(agents[i]) \cap ts[i].shared ELSE {}
        Seen(d, shared) ==
            [k \in DOMAIN d |-> IF k \in hit \cap shared THEN r.context[k] ELSE d[k]]
    IN  [tasks |->
            [j \in 1..Len(ts) |->
                IF j = i
                THEN [state |-> IF r.ok THEN "done" ELSE "failed",
                      context |-> r.context,
                      shared |-> IF r.ok THEN ts[i].shared \ Assigned(agents[i])
                                 ELSE ts[i].shared,
                      error |-> r.error]
                ELSE [ts[j] EXCEPT !.context = Seen(ts[j].context, ts[j].shared)]],
         outer |-> Seen(outer, DOMAIN outer),
         ok |-> r.ok,
         before |-> ts[i].context,
         after |-> r.context]

\* context['parallel_results'] = results, each successful entry being the
\* dict its task returned.
MergeResults(context, res, ts) ==
    Put(context, "parallel_results",
        [n \in DOMAIN res |->
            IF "task" \in DOMAIN res[n] THEN ts[res[n].task].context ELSE res[n]])

\* if not self.sub_agents: return context.  (To the SequentialAgent that
\* awaits it, or to the caller when the ParallelAgent is run on its own.)
ParEmpty ==
    /\ pc = "seq"
    /\ ip <= Len(steps)
    /\ steps[ip].parallel
    /\ steps[ip].sub_agents = <<>>
    /\ ip' = ip + 1
    /\ UNCHANGED <<auxVars, hybVars,
                   coro, entry, loop_running, args, steps, pc, ctx, ctx0, tasks, results,
                   awaited, exc, log, ret>>

\* The loop creating one task per sub-agent, each on context.copy().
ParSpawn ==
    /\ pc = "seq"
    /\ ip <= Len(steps)
    /\ steps[ip].parallel
    /\ steps[ip].sub_agents # <<>>
    /\ tasks' = [i \in 1..Len(steps[ip].sub_agents) |-> NewTask(ContextCopy(ctx))]
    /\ results' = <<>>
    /\ awaited' = 0
    /\ pc' = "par"
    /\ UNCHANGED <<auxVars, hybVars,
                   coro, entry, loop_running, args, steps, ip, ctx, ctx0, exc, log, ret>>

\* Variant of TaskRun in which every task is given the incoming dict itself
\* instead of context.copy(): what the running task assigns is in the dict
\* of the tasks still pending and in the incoming context.
TaskRunSharedDict(i) ==
    /\ pc = "par"
    /\ i \in 1..Len(tasks)
    /\ tasks[i].state = "pending"
    /\ \E faults \in FaultChoices(steps[ip].sub_agents[i]) :
          LET r == RunAgent(steps[ip].sub_agents[i], tasks[i].context, faults)
          IN  /\ tasks' = [j \in 1..Len(tasks) |->
                    IF j = i
                    THEN [tasks[i] EXCEPT !.state = IF r.ok THEN "done" ELSE "failed",
                                          !.context = r.context,
                                          !.error = r.error]
                    ELSE [tasks[j] EXCEPT !.context = r.context]]
              /\ ctx' = r.context
              /\ log' = log \o
                    <<Event("call", steps[ip].sub_agents[i], tasks[i].context),
                      Event(IF r.ok THEN "return" ELSE "raise",
                            steps[ip].sub_agents[i], r.context)>>
    /\ UNCHANGED <<auxVars, hybVars,
                   coro, entry, loop_running, args, steps, pc, ip, ctx0, results,
                   awaited, exc, ret>>

\* The event loop runs a task that has not run yet.  The agents have no
\* await of their own in the source, so a task runs in one step; which
\* pending task runs next is left to the event loop.
TaskRun(i) ==
    /\ pc = "par"
    /\ i \in 1..Len(tasks)
    /\ tasks[i].state = "pending"
    /\ \E faults \in FaultChoices(steps[ip].sub_agents[i]) :
          LET run == RunTask(tasks, ctx, steps[ip].sub_agents, i, faults)
          IN  /\ tasks' = run.tasks
              /\ ctx' = run.outer
              /\ log' = log \o
                    <<Event("call", steps[ip].sub_agents[i], run.before),
                      Event(IF run.ok THEN "return" ELSE "raise",
                            steps[ip].sub_agents[i], run.after)>>
    /\ UNCHANGED <<auxVars, hybVars,
                   coro, entry, loop_running, args, steps, pc, ip, ctx0, results, awaited,
                   exc, ret>>

\* Variant of ParAwait without the try/except: the exception of a failed
\* task leaves ParallelAgent.run_async.
ParAwaitNoCatch ==
    /\ pc = "par"
    /\ awaited < Len(tasks)
    /\ tasks[awaited + 1].state # "pending"
    /\ IF tasks[awaited + 1].state = "failed"
       THEN /\ pc' = "raised"
            /\ exc' = tasks[awaited + 1].error
            /\ results' = results
            /\ awaited' = awaited
       ELSE /\ pc' = pc
            /\ exc' = exc
            /\ results' = Put(results, steps[ip].sub_agents[awaited + 1],
                              [task |-> awaited + 1])
            /\ awaited' = awaited + 1
    /\ UNCHANGED <<auxVars, hybVars,
                   coro, entry, loop_running, args, steps, ip, ctx, ctx0, tasks, log, ret>>

\* for agent_name, task in tasks: try: result = await task ... except
\* Exception as e: results[agent_name] = {'error': str(e)}
ParAwait ==
    /\ pc = "par"
    /\ awaited < Len(tasks)
    /\ tasks[awaited + 1].state # "pending"
    /\ results' = Put(results, steps[ip].sub_agents[awaited + 1],
                      IF tasks[awaited + 1].state = "failed"
                      THEN [error |-> tasks[awaited + 1].error]
                      ELSE [task |-> awaited + 1])
    /\ awaited' = awaited + 1
    /\ UNCHANGED <<auxVars, hybVars,
                   coro, entry, loop_running, args, steps, pc, ip, ctx, ctx0, tasks, exc,
                   log, ret>>

\* context['parallel_results'] = results; return context
ParMerge ==
    /\ pc = "par"
    /\ awaited = Len(tasks)
    /\ ctx' = MergeResults(ctx, results, tasks)
    /\ ip' = ip + 1
    /\ pc' = "seq"
    /\ UNCHANGED <<auxVars, hybVars,
                   coro, entry, loop_running, args, steps, ctx0, tasks, results, awaited,
                   exc, log, ret>>

\* ------------------------------------------------------------ AgenticSummarizer
\* Whether the body of AgenticSummarizer.summarize_search_results runs: the
\* sync wrapper calls loop.run_until_complete, which raises RuntimeError when
\* the thread's loop is already running.
BodyRuns == entry = "async" \/ (entry = "sync" /\ ~loop_running)

\* Where an exception leaving summarize_search_results goes: into the
\* except clause of the sync wrapper, or to the caller.
Unwind == IF entry = "sync" THEN "sync_except" ELSE "escaped"

\* if not search_results: return self._generate_no_results_summary(...)
SummarizeNoResults ==
    /\ pc = "call"
    /\ BodyRuns
    /\ args.search_results = <<>>
    /\ IF LookupRaises(args.language)
       THEN /\ exc' = "TypeError"
            /\ pc' = Unwind
            /\ ret' = ret
       ELSE /\ exc' = exc
            /\ pc' = "done"
            /\ ret' = GenerateNoResultsSummary(args.query, args.language)
    /\ coro' = "finished"
    /\ UNCHANGED <<auxVars, hybVars,
                   entry, loop_running, args, steps, ip, ctx, ctx0, tasks, results,
                   awaited, log>>

\* The context summarize_search_results prepares.
PrepareContext(a) ==
    [search_results |-> Take(a.search_results, a.max_results),
     query |-> a.query,
     language |-> a.language,
     max_results |-> a.max_results,
     start_timestamp |-> Timestamp]

\* Variant of SummarizeStart without the "if not search_results" test before it.
SummarizeStartUnguarded ==
    /\ pc = "call"
    /\ BodyRuns
    /\ ctx' = PrepareContext(args)
    /\ ctx0' = PrepareContext(args)
    /\ ip' = 1
    /\ pc' = "seq"
    /\ coro' = "running"
    /\ UNCHANGED <<auxVars, hybVars,
                   entry, loop_running, args, steps, tasks, results, awaited, exc,
                   log, ret>>

\* summarize_search_results builds the context and calls run_async, which
\* calls self.main_workflow.run_async(context).
SummarizeStart ==
    /\ pc = "call"
    /\ BodyRuns
    /\ args.search_results # <<>>
    /\ ctx' = PrepareContext(args)
    /\ ctx0' = PrepareContext(args)
    /\ ip' = 1
    /\ pc' = "seq"
    /\ coro' = "running"
    /\ UNCHANGED <<auxVars, hybVars,
                   entry, loop_running, args, steps, tasks, results, awaited, exc,
                   log, ret>>

\* run_async: final_result = self._compile_final_result(result_context)
RunAsyncCompile ==
    /\ pc = "returned"
    /\ entry # "compose"
    /\ ret' = CompileFinalResult(ctx)
    /\ pc' = "done"
    /\ coro' = "finished"
    /\ UNCHANGED <<auxVars, hybVars,
                   entry, loop_running, args, steps, ip, ctx, ctx0, tasks, results,
                   awaited, exc, log>>

\* Variant of RunAsyncError that compiles a result from the context as it
\* stands, as if the failure had been recorded and passed over.
RunAsyncErrorCompile ==
    /\ pc = "raised"
    /\ entry # "compose"
    /\ ret' = CompileFinalResult(ctx)
    /\ pc' = "done"
    /\ coro' = "finished"
    /\ UNCHANGED <<auxVars, hybVars,
                   entry, loop_running, args, steps, ip, ctx, ctx0, tasks, results,
                   awaited, exc, log>>

\* run_async: except Exception as e: return self._generate_error_result(
\* context, str(e)); the dict lookup by language raises for an unhashable one.
RunAsyncError ==
    /\ pc = "raised"
    /\ entry # "compose"
    /\ IF LookupRaises(Get(ctx, "language", "english"))
       THEN /\ exc' = "TypeError"
            /\ pc' = Unwind
            /\ ret' = ret
       ELSE /\ exc' = exc
            /\ pc' = "done"
            /\ ret' = GenerateErrorResult(ctx, exc)
    /\ coro' = "finished"
    /\ UNCHANGED <<auxVars, hybVars,
                   entry, loop_running, args, steps, ip, ctx, ctx0, tasks, results,
                   awaited, log>>

\* Variant of SyncNested in which run_until_complete wraps the coroutine in
\* a task on the running loop before it raises.
SyncNestedScheduled ==
    /\ pc = "call"
    /\ entry = "sync"
    /\ loop_running
    /\ coro' = "running"
    /\ exc' = "RuntimeError"
    /\ pc' = "sync_except"
    /\ UNCHANGED <<auxVars, hybVars,
                   entry, loop_running, args, steps, ip, ctx, ctx0, tasks, results,
                   awaited, log, ret>>

\* summarize_search_results_sync with the thread's loop running: the call
\* agentic_summarizer.summarize_search_results(...) in the argument makes the
\* coroutine object, then loop.run_until_complete raises RuntimeError ("This
\* event loop is already running") before it wraps the coroutine in a task:
\* the coroutine never starts.
SyncNested ==
    /\ pc = "call"
    /\ entry = "sync"
    /\ loop_running
    /\ coro' = "created"
    /\ exc' = "RuntimeError"
    /\ pc' = "sync_except"
    /\ UNCHANGED <<auxVars, hybVars,
                   entry, loop_running, args, steps, ip, ctx, ctx0, tasks, results,
                   awaited, log, ret>>

\* summarize_search_results_sync: except Exception as e: return
\* agentic_summarizer._generate_error_result({'query': ..., 'language': ...}, str(e)).
\* Leaving the except clause drops e and with it the last reference to a
\* coroutine that never started; an exception raised inside the clause
\* keeps e, and so the coroutine, as its __context__.
SyncExcept ==
    /\ pc = "sync_except"
    /\ IF LookupRaises(args.language)
       THEN /\ exc' = "TypeError"
            /\ pc' = "escaped"
            /\ ret' = ret
            /\ coro' = coro
       ELSE /\ exc' = exc
            /\ pc' = "done"
            /\ ret' = GenerateErrorResult(
                         [query |-> args.query, language |-> args.language], exc)
            /\ coro' = IF coro = "created" THEN "discarded" ELSE coro
    /\ UNCHANGED <<auxVars, hybVars,
                   entry, loop_running, args, steps, ip, ctx, ctx0, tasks, results,
                   awaited, log>>

\* ------------------------------------------------------------ HybridOrchestrator
\* core/hybrid_summarizer.py is not among the files of the repository: the
\* orchestrator below follows its specification (state machine, selection
\* rule, fallback, configure, serialized configuration); its callers in
\* api/main.py follow their code.

\* Summarize calls and update_summarizer_config calls followed.
MaxRequests == 1
MaxUpdates == 1

\* The configurations a run starts from.
Configs ==
    [use_agentic_by_default : BOOLEAN,
     min_results : {2, 3},
     min_content_length : {100, 300}]

\* use_agentic_by_default false, min_results 2.
DefaultConfig ==
    [use_agentic_by_default |-> FALSE, min_results |-> 2, min_content_length |-> 100]

\* What stands for a configuration where none was read yet.
NoConfig ==
    [use_agentic_by_default |-> FALSE, min_results |-> 0, min_content_length |-> 0]

\* agentic_search: the force flags passed for each approach.
ForceFlags(approach) ==
    [force_lightweight |-> approach = "lightweight",
     force_agentic |-> approach = "agentic"]

\* Variant of SelectPath that looks at use_agentic_by_default before the
\* force flags.
SelectPathDefaultFirst(cfg, n, len, flags) ==
    IF cfg.use_agentic_by_default THEN "pipeline"
    ELSE IF flags.force_lightweight THEN "heuristic"
    ELSE IF flags.force_agentic THEN "pipeline"
    ELSE IF n < cfg.min_results /\ len < cfg.min_content_length THEN "heuristic"
    ELSE "pipeline"

\* Variant of SelectPath that takes the heuristic path whenever nothing
\* asks for the pipeline, whatever the thresholds.
SelectPathNoThresholds(cfg, n, len, flags) ==
    IF flags.force_lightweight THEN "heuristic"
    ELSE IF flags.force_agentic \/ cfg.use_agentic_by_default THEN "pipeline"
    ELSE "heuristic"

\* The selection rule: a force flag wins; then use_agentic_by_default; then
\* the heuristic path when the result count and the combined content length
\* are both below the minimums, the pipeline otherwise.
SelectPath(cfg, n, len, flags) ==
    IF flags.force_lightweight THEN "heuristic"
    ELSE IF flags.force_agentic THEN "pipeline"
    ELSE IF cfg.use_agentic_by_default THEN "pipeline"
    ELSE IF n < cfg.min_results /\ len < cfg.min_content_length THEN "heuristic"
    ELSE "pipeline"

\* A summarize call before it is made.
IdleRequest ==
    [state |-> "idle", approach |-> "hybrid", n |-> 0, len |-> 0, default |-> FALSE,
     seen |-> NoConfig, path |-> "none", tried |-> <<>>, approach_used |-> "none",
     trace |-> <<"idle">>, served |-> 0]

\* Bodies of SummarizerConfigRequest: "given" names the fields that are not
\* None; a field that is None is written with its first value.
SummarizerConfigRequests ==
    {b \in [given : SUBSET {"use_agentic_by_default", "min_results_threshold",
                            "min_content_length"},
            use_agentic_by_default : BOOLEAN,
            min_results_threshold : {-1, 3},
            min_content_length : {-1, 300}] :
        /\ "use_agentic_by_default" \notin b.given => b.use_agentic_by_default = FALSE
        /\ "min_results_threshold" \notin b.given => b.min_results_threshold = -1
        /\ "min_content_length" \notin b.given => b.min_content_length = -1}

\* update_summarizer_config: the configure calls it makes for a body, in
\* order: configure(use_agentic_by_default=...) when the flag is given, then
\* configure(agentic_thresholds={...}) with the thresholds that are given.
ConfigureCalls(body) ==
    (IF "use_agentic_by_default" \in body.given
     THEN <<[keys |-> <<"use_agentic_by_default">>,
             use_agentic_by_default |-> body.use_agentic_by_default,
             min_results |-> 0, min_content_length |-> 0]>>
     ELSE <<>>)
    \o (IF body.given \cap {"min_results_threshold", "min_content_length"} # {}
        THEN <<[keys |->
                   (IF "min_results_threshold" \in body.given
                    THEN <<"min_results">> ELSE <<>>)
                   \o (IF "min_content_length" \in body.given
                       THEN <<"min_content_length">> ELSE <<>>),
                use_agentic_by_default |-> FALSE,
                min_results |-> body.min_results_threshold,
                min_content_length |-> body.min_content_length]>>
        ELSE <<>>)

\* configure accepts a call whose threshold values are not negative.
ValidCall(call) ==
    /\ "min_results" \in Range(call.keys) => call.min_results >= 0
    /\ "min_content_length" \in Range(call.keys) => call.min_content_length >= 0

\* The configuration with the field "key" assigned from a configure call.
WriteField(cfg, key, call) ==
    CASE key = "use_agentic_by_default" ->
            [cfg EXCEPT !.use_agentic_by_default = call.use_agentic_by_default]
      [] key = "min_results" -> [cfg EXCEPT !.min_results = call.min_results]
      [] key = "min_content_length" ->
            [cfg EXCEPT !.min_content_length = call.min_content_length]

\* No update_summarizer_config call yet.
IdleUpdate ==
    [pc |-> "idle", calls |-> <<>>, writes |-> <<>>, before |-> DefaultConfig,
     served |-> 0]

\* Variant of CanAcquire for accessors that take no lock.
NoLock(who) == TRUE

\* Whether "who" may enter a section that reads or writes the configuration.
CanAcquire(who) == lock = "free"

\* No orchestrator call in the run.
HybridIdle ==
    /\ config = DefaultConfig
    /\ lock = "free"
    /\ req = IdleRequest
    /\ upd = IdleUpdate
    /\ applied = {DefaultConfig}
    /\ info = NoConfig

\* No pipeline call in the run.
PipelineIdle ==
    /\ entry = "hybrid"
    /\ loop_running = TRUE
    /\ args = NoArgs
    /\ steps = <<>>
    /\ pc = "done"
    /\ ip = 1
    /\ ctx = <<>>
    /\ ctx0 = <<>>
    /\ tasks = NoTasks
    /\ results = <<>>
    /\ awaited = 0
    /\ exc = ""
    /\ log = <<>>
    /\ ret = NoneVal
    /\ coro = "none"

\* agentic_search: hybrid_summarizer.summarize_search_results(raw_results,
\* query, language, force flags by approach), once the call before it has
\* returned; a is AgenticSearchRequest.approach, n is len(raw_results), len
\* the combined length of their content.  On an empty list the no_results
\* record is returned without either path.
SummarizeCall ==
    /\ req.state \in {"idle", "done", "error"}
    /\ req.served < MaxRequests
    /\ \E a \in {"lightweight", "agentic", "hybrid"}, n \in {0, 1, 3}, len \in {50, 400} :
          req' = IF n = 0
                 THEN [IdleRequest EXCEPT !.state = "done", !.approach = a,
                                          !.approach_used = "no_results",
                                          !.trace = <<"idle", "done">>,
                                          !.served = req.served + 1]
                 ELSE [IdleRequest EXCEPT !.state = "selecting", !.approach = a,
                                          !.n = n, !.len = len,
                                          !.trace = <<"idle", "selecting">>,
                                          !.served = req.served + 1]
    /\ UNCHANGED <<auxVars, pipeVars, config, lock, upd, applied, info>>

\* Selection starts: the request enters the section that reads the
\* configuration and reads use_agentic_by_default.
SelectBegin ==
    /\ req.state = "selecting"
    /\ req.path = "none"
    /\ lock # "summarize"
    /\ CanAcquire("summarize")
    /\ lock' = "summarize"
    /\ req' = [req EXCEPT !.default = config.use_agentic_by_default, !.path = "reading"]
    /\ UNCHANGED <<auxVars, pipeVars, config, upd, applied, info>>

\* Selection ends: the request reads the thresholds, leaves the section and
\* takes the path the rule gives for what it read.
SelectEnd ==
    /\ req.state = "selecting"
    /\ req.path = "reading"
    /\ LET seen == [config EXCEPT !.use_agentic_by_default = req.default]
       IN  req' = [req EXCEPT
                     !.seen = seen,
                     !.path = SelectPath(seen, req.n, req.len, ForceFlags(req.approach)),
                     !.state = "executing",
                     !.trace = Append(@, "executing")]
    /\ lock' = "free"
    /\ UNCHANGED <<auxVars, pipeVars, config, upd, applied, info>>

\* Variant of Execute in which the record of the path is returned as it is.
ExecuteUnnormalized ==
    /\ req.state = "executing"
    /\ \E ok \in BOOLEAN :
          req' = IF ok
                 THEN [req EXCEPT !.tried = Append(@, req.path),
                                  !.approach_used = req.path,
                                  !.state = "done",
                                  !.trace = Append(@, "done")]
                 ELSE IF req.path = "pipeline"
                 THEN [req EXCEPT !.tried = Append(@, req.path),
                                  !.path = "heuristic",
                                  !.trace = Append(@, "executing")]
                 ELSE [req EXCEPT !.tried = Append(@, req.path),
                                  !.approach_used = "error",
                                  !.state = "error",
                                  !.trace = Append(@, "error")]
    /\ UNCHANGED <<auxVars, pipeVars, config, lock, upd, applied, info>>

\* Variant of Execute without the fallback: a failure of the pipeline path
\* ends the request as an error.
ExecuteNoFallback ==
    /\ req.state = "executing"
    /\ \E ok \in BOOLEAN :
          req' = IF ok
                 THEN [req EXCEPT !.tried = Append(@, req.path),
                                  !.approach_used = req.path,
                                  !.state = "normalizing",
                                  !.trace = Append(@, "normalizing")]
                 ELSE [req EXCEPT !.tried = Append(@, req.path),
                                  !.approach_used = "error",
                                  !.state = "error",
                                  !.trace = Append(@, "error")]
    /\ UNCHANGED <<auxVars, pipeVars, config, lock, upd, applied, info>>

\* The path selected runs.  It returns a record, or it fails: a failure of
\* the pipeline path is caught and the heuristic path runs next on the same
\* inputs; a failure of the heuristic path ends the request as an error.
Execute ==
    /\ req.state = "executing"
    /\ \E ok \in BOOLEAN :
          req' = IF ok
                 THEN [req EXCEPT !.tried = Append(@, req.path),
                                  !.approach_used = req.path,
                                  !.state = "normalizing",
                                  !.trace = Append(@, "normalizing")]
                 ELSE IF req.path = "pipeline"
                 THEN [req EXCEPT !.tried = Append(@, req.path),
                                  !.path = "heuristic",
                                  !.trace = Append(@, "executing")]
                 ELSE [req EXCEPT !.tried = Append(@, req.path),
                                  !.approach_used = "error",
                                  !.state = "error",
                                  !.trace = Append(@, "error")]
    /\ UNCHANGED <<auxVars, pipeVars, config, lock, upd, applied, info>>

\* The record of the path is put in the one result shape and returned.
Normalize ==
    /\ req.state = "normalizing"
    /\ req' = [req EXCEPT !.state = "done", !.trace = Append(@, "done")]
    /\ UNCHANGED <<auxVars, pipeVars, config, lock, upd, applied, info>>

\* get_summarizer_config: hybrid_summarizer.get_summarizer_info() reads the
\* configuration inside the section.
GetSummarizerInfo ==
    /\ CanAcquire("get_summarizer_info")
    /\ info # config
    /\ info' = config
    /\ UNCHANGED <<auxVars, pipeVars, config, lock, req, upd, applied>>

\* update_summarizer_config is called with a body.
UpdateCall ==
    /\ upd.pc \in {"idle", "returned", "failed"}
    /\ upd.served < MaxUpdates
    /\ \E body \in SummarizerConfigRequests :
          upd' = [pc |-> "apply", calls |-> ConfigureCalls(body), writes |-> <<>>,
                  before |-> config, served |-> upd.served + 1]
    /\ UNCHANGED <<auxVars, pipeVars, config, lock, req, applied, info>>

\* Variant of ConfigureBegin that validates nothing.
ConfigureBeginUnchecked ==
    /\ upd.pc = "apply"
    /\ upd.calls # <<>>
    /\ CanAcquire("configure")
    /\ upd' = [upd EXCEPT !.pc = "writing", !.writes = Head(upd.calls).keys,
                          !.before = config]
    /\ lock' = "configure"
    /\ UNCHANGED <<auxVars, pipeVars, config, req, applied, info>>

\* hybrid_summarizer.configure(...): the call is validated before anything
\* is written; an invalid one raises, which update_summarizer_config turns
\* into HTTP 500; a valid one enters the section.
ConfigureBegin ==
    /\ upd.pc = "apply"
    /\ upd.calls # <<>>
    /\ CanAcquire("configure")
    /\ IF ValidCall(Head(upd.calls))
       THEN /\ upd' = [upd EXCEPT !.pc = "writing", !.writes = Head(upd.calls).keys,
                                  !.before = config]
            /\ lock' = "configure"
       ELSE /\ upd' = [upd EXCEPT !.pc = "failed", !.before = config]
            /\ lock' = lock
    /\ UNCHANGED <<auxVars, pipeVars, config, req, applied, info>>

\* configure assigns one field; after the last one it leaves the section.
ConfigureWrite ==
    /\ upd.pc = "writing"
    /\ config' = WriteField(config, Head(upd.writes), Head(upd.calls))
    /\ IF Len(upd.writes) = 1
       THEN /\ upd' = [upd EXCEPT !.pc = "apply", !.writes = <<>>, !.calls = Tail(@)]
            /\ lock' = "free"
            /\ applied' = applied \cup {config'}
       ELSE /\ upd' = [upd EXCEPT !.writes = Tail(@)]
            /\ lock' = lock
            /\ applied' = applied
    /\ UNCHANGED <<auxVars, pipeVars, req, info>>

\* update_summarizer_config: updated_config = hybrid_summarizer.get_summarizer_info(),
\* then the response.
UpdateReturn ==
    /\ upd.pc = "apply"
    /\ upd.calls = <<>>
    /\ CanAcquire("configure")
    /\ info' = config
    /\ upd' = [upd EXCEPT !.pc = "returned"]
    /\ UNCHANGED <<auxVars, pipeVars, config, lock, req, applied>>

\* ------------------------------------------------------------ specifications
\* A call of summarize_search_results or of summarize_search_results_sync.
Init ==
    /\ entry \in {"async", "sync"}
    /\ loop_running \in BOOLEAN
    /\ entry = "async" => loop_running
    /\ args \in [search_results : SeqsUpTo(Records, MaxResults),
                  query : Queries,
                  language : Languages,
                  max_results : MaxResultsArgs]
    /\ steps = SequentialSteps(SubAgents("MainWorkflow"))
    /\ pc = "call"
    /\ ip = 1
    /\ ctx = <<>>
    /\ ctx0 = <<>>
    /\ tasks = NoTasks
    /\ results = <<>>
    /\ awaited = 0
    /\ exc = ""
    /\ log = <<>>
    /\ ret = NoneVal
    /\ coro = "none"
    /\ HybridIdle
    /\ AuxIdle

Next ==
    \/ SummarizeNoResults
    \/ SummarizeStart
    \/ SyncNested
    \/ SeqCall
    \/ SeqChildEnd
    \/ ParSpawn
    \/ \E i \in 1..MaxKids : TaskRun(i)
    \/ ParAwait
    \/ ParMerge
    \/ SeqReturn
    \/ RunAsyncCompile
    \/ RunAsyncError
    \/ SyncExcept

Spec == Init /\ [][Next]_vars

\* The same calls, the interpreter going on with the statements of
\* summarize_search_results_sync that involve no event loop of its own: a
\* call of run_until_complete that raises, and the except clause.
SpecFair == Spec /\ WF_vars(SyncNested) /\ WF_vars(SyncExcept)

\* ------------------------------------------------------------ a composer on its own
\* Agents registered with the composer under test.
ComposeAgents == ProbeNames \cup {"ContentAnalyzer"}

\* Sequences of distinct agents: results are keyed by agent name.
DistinctSeqs(S, n) ==
    {q \in SeqsUpTo(S, n) : \A i, j \in 1..Len(q) : q[i] = q[j] => i = j}

\* The context after DataFetcher has run on two records.
FetchedContext ==
    DataFetcher([search_results |-> <<RecA, RecB>>, query |-> <<"climate", "warm">>,
                 language |-> "english", max_results |-> 3]).context

\* A context without processed_results.
BareContext == [query |-> <<"climate", "warm">>, language |-> "english"]

ComposeContexts == {FetchedContext, BareContext}

\* The class of the composer under test.
ComposerClass ==
    IF steps # <<>> /\ steps[1].parallel THEN "ParallelAgent" ELSE "SequentialAgent"

\* Its sub_agents.
Kids ==
    IF ComposerClass = "ParallelAgent" THEN steps[1].sub_agents
    ELSE [i \in 1..Len(steps) |-> steps[i].agent]

\* A call of SequentialAgent.run_async or of ParallelAgent.run_async with
\* sub-agents added by add_sub_agent.
InitCompose ==
    /\ entry = "compose"
    /\ loop_running = TRUE
    /\ args = NoArgs
    /\ \E kids \in DistinctSeqs(ComposeAgents, MaxKids) :
          \/ steps = [i \in 1..Len(kids) |-> LeafStep(kids[i])]
          \/ steps = <<[agent |-> "ParallelAgent", parallel |-> TRUE,
                        sub_agents |-> kids]>>
    /\ pc = "seq"
    /\ ip = 1
    /\ ctx \in ComposeContexts
    /\ ctx0 = ctx
    /\ tasks = NoTasks
    /\ results = <<>>
    /\ awaited = 0
    /\ exc = ""
    /\ log = <<>>
    /\ ret = NoneVal
    /\ coro = "none"
    /\ HybridIdle
    /\ AuxIdle

NextCompose ==
    \/ SeqCall
    \/ SeqChildEnd
    \/ ParEmpty
    \/ ParSpawn
    \/ \E i \in 1..MaxKids : TaskRun(i)
    \/ ParAwait
    \/ ParMerge
    \/ SeqReturn

SpecCompose == InitCompose /\ [][NextCompose]_vars

\* ------------------------------------------------------------ the orchestrator in use
\* Calls of agentic_search, get_summarizer_config and update_summarizer_config
\* on one hybrid_summarizer, from any configuration.
InitHybrid ==
    /\ PipelineIdle
    /\ config \in Configs
    /\ lock = "free"
    /\ req = IdleRequest
    /\ upd = [IdleUpdate EXCEPT !.before = config]
    /\ applied = {config}
    /\ info = NoConfig
    /\ AuxIdle

RequestStep ==
    \/ SummarizeCall
    \/ SelectBegin
    \/ SelectEnd
    \/ Execute
    \/ Normalize

UpdateStep ==
    \/ UpdateCall
    \/ ConfigureBegin
    \/ ConfigureWrite
    \/ UpdateReturn

NextHybrid ==
    \/ RequestStep
    \/ UpdateStep
    \/ GetSummarizerInfo

\* Every call that was made goes on: the interpreter runs the request and
\* the update it serves to their end.
SpecHybrid ==
    /\ InitHybrid
    /\ [][NextHybrid]_vars
    /\ WF_vars(SelectBegin \/ SelectEnd \/ Execute \/ Normalize)
    /\ WF_vars(ConfigureBegin \/ ConfigureWrite \/ UpdateReturn)

\* ------------------------------------------------------------ properties
\* The agents that raised, by the log.
Raised == {log[i].agent : i \in {j \in 1..Len(log) : log[j].ev = "raise"}}

\* The agents that were called, by the log.
Called == {log[i].agent : i \in {j \in 1..Len(log) : log[j].ev = "call"}}

\* The keys every result record carries.
ResultKeys ==
    {"query", "language", "ai_summary", "key_insights", "confidence_score",
     "source_count", "sources"}

\* C1: for every input list, malformed records included, and every language
\* tag (a str), a summarize call with a non-empty list never raises to the
\* caller: from both entry points no exception escapes, no agent is called
\* twice, and the record returned has a summary text that is not null and the
\* pipeline's method (multi_agent_agentic) or the error one (error_fallback).
C1_NeverRaises ==
    (args.language # Unhashable /\ args.search_results # <<>>) =>
        /\ pc # "escaped"
        /\ \A i, j \in 1..Len(log) :
              (log[i].ev = "call" /\ log[j].ev = "call" /\ log[i].agent = log[j].agent)
                  => i = j
        /\ pc = "done" =>
              /\ ResultKeys \subseteq DOMAIN ret
              /\ ret.ai_summary # NoneVal
              /\ ret.ai_summary # <<>>
              /\ ret.summarization_method \in {"multi_agent_agentic", "error_fallback"}

\* The sync entry point, no loop running, has returned from a pipeline run
\* on a record lacking title and source and a record with a None title, in
\* a language absent from the tables: DataFetcher raised on the None title.
C1_Witness ==
    /\ pc = "done"
    /\ args.search_results = <<RecSparse, RecNull>>
    /\ args.max_results = 3
    /\ args.language = "klingon"
    /\ entry = "sync"
    /\ ~loop_running
    /\ Raised = {"DataFetcher"}
    /\ ret.error = "AttributeError"
    /\ ret.summarization_method = "error_fallback"

\* C2: with an empty result list, for every query and language tag, the body
\* of summarize_search_results returns the no-results record (method
\* no_results_fallback, confidence 0.0, source_count 0) and no agent is ever
\* called on that request.
C2_NoResultsLaw ==
    args.search_results = <<>> =>
        /\ log = <<>>
        /\ pc \notin {"seq", "child", "par", "returned", "raised"}
        /\ (BodyRuns /\ args.language # Unhashable) => pc \in {"call", "done"}
        /\ (BodyRuns /\ pc = "done") =>
              /\ ret.summarization_method = "no_results_fallback"
              /\ ret.confidence_score = 0
              /\ ret.source_count = 0
              /\ ret.query = args.query
              /\ ret.language = args.language

\* The sync entry point, no loop running, has returned for an empty list.
C2_Witness ==
    /\ pc = "done"
    /\ args.search_results = <<>>
    /\ entry = "sync"
    /\ ~loop_running
    /\ args.query = NoneVal
    /\ ret.summarization_method = "no_results_fallback"

\* C3: a ParallelAgent never raises; when it returns, every sub-agent has
\* been called and has ended, a sub-agent that raised has exactly
\* {'error': message} under its name, and every other sub-agent has the dict
\* it returned under its name.
C3_FailureIsolation ==
    ComposerClass = "ParallelAgent" =>
        /\ pc # "raised"
        /\ (pc = "returned" /\ Kids # <<>>) =>
              /\ Called = Range(Kids)
              /\ DOMAIN ctx["parallel_results"] = Range(Kids)
              /\ \A i \in 1..Len(Kids) :
                    /\ tasks[i].state # "pending"
                    /\ Kids[i] \in Raised =>
                          /\ tasks[i].error # ""
                          /\ ctx["parallel_results"][Kids[i]] = [error |-> tasks[i].error]
                    /\ Kids[i] \notin Raised =>
                          /\ "error" \notin DOMAIN ctx["parallel_results"][Kids[i]]
                          /\ Assigned(Kids[i]) \subseteq DOMAIN ctx["parallel_results"][Kids[i]]
                          /\ ctx["parallel_results"][Kids[i]] = tasks[i].context

\* A ParallelAgent whose first two sub-agents raised and whose third did
\* not has returned.
C3_Witness ==
    /\ pc = "returned"
    /\ ComposerClass = "ParallelAgent"
    /\ Kids = <<"Failer", "Appender", "Snapshotter">>
    /\ Raised = {"Failer", "Appender"}
    /\ "snapshot" \in DOMAIN ctx["parallel_results"]["Snapshotter"]

\* C4: every sub-agent of a ParallelAgent is called with a context equal to
\* the incoming one, whatever its siblings did before it ran, changes inside
\* the lists of the incoming context included.
C4_BranchIsolation ==
    ComposerClass = "ParallelAgent" =>
        \A k \in 1..Len(log) : log[k].ev = "call" => log[k].context = ctx0

\* C5: when a ParallelAgent with at least one sub-agent has returned, the
\* context has parallel_results[name] for every sub-agent, every key of the
\* incoming context has its incoming value, and no other key was added.
C5_FrameCondition ==
    (pc = "returned" /\ ComposerClass = "ParallelAgent" /\ Kids # <<>>) =>
        /\ DOMAIN ctx = DOMAIN ctx0 \cup {"parallel_results"}
        /\ Range(Kids) \subseteq DOMAIN ctx["parallel_results"]
        /\ \A k \in DOMAIN ctx0 : ctx[k] = ctx0[k]

\* The tasks and the incoming context after the tasks i.. have run in
\* registration order.
RECURSIVE RunInOrder(_, _, _, _)
RunInOrder(ts, outer, agents, i) ==
    IF i > Len(agents) THEN [tasks |-> ts, outer |-> outer]
    ELSE LET run == RunTask(ts, outer, agents, i, {})
         IN  RunInOrder(run.tasks, run.outer, agents, i + 1)

\* The dict "results" of a ParallelAgent whose tasks run in registration order.
RegistrationOrderResults(context, agents) ==
    LET fin == RunInOrder([i \in 1..Len(agents) |-> NewTask(ContextCopy(context))],
                          context, agents, 1).tasks
    IN  [n \in Range(agents) |->
            LET i == CHOOSE j \in 1..Len(agents) : agents[j] = n
            IN  IF fin[i].state = "failed" THEN [error |-> fin[i].error]
                ELSE fin[i].context]

\* C6: for a given incoming context and given sub-agents, parallel_results
\* is the same whatever the order in which the tasks ran: it is what the
\* registration order gives.
C6_OrderIndependence ==
    (pc = "returned" /\ ComposerClass = "ParallelAgent" /\ Kids # <<>>) =>
        ctx["parallel_results"] = RegistrationOrderResults(ctx0, Kids)

\* C7: a SequentialAgent calls its sub-agents one at a time in registration
\* order, each call coming after the return of the one before and getting
\* exactly the context that one returned; it returns the context the last
\* sub-agent returned.
C7_SequentialOrdering ==
    ComposerClass = "SequentialAgent" =>
        /\ Len(log) <= 2 * Len(Kids)
        /\ (pc = "child") <=> (Len(log) % 2 = 1)
        /\ \A k \in 1..Len(log) :
              /\ log[k].agent = Kids[(k + 1) \div 2]
              /\ k % 2 = 0 => log[k].ev \in {"return", "raise"}
              /\ k % 2 = 1 =>
                    /\ log[k].ev = "call"
                    /\ k = 1 => log[k].context = ctx0
                    /\ k > 1 => /\ log[k - 1].ev = "return"
                                /\ log[k].context = log[k - 1].context
        /\ pc = "returned" =>
              /\ Len(log) = 2 * Len(Kids)
              /\ Kids = <<>> => ctx = ctx0
              /\ Kids # <<>> => /\ log[Len(log)].ev = "return"
                                /\ ctx = log[Len(log)].context

\* A SequentialAgent with three sub-agents has returned, the third having
\* seen what the first two wrote.
C7_Witness ==
    /\ pc = "returned"
    /\ ComposerClass = "SequentialAgent"
    /\ Kids = <<"Rebinder", "Appender", "Snapshotter">>
    /\ ctx["query"] = <<"warm">>
    /\ ctx["snapshot"] = Append(ctx0["processed_results"], ProbeItem)

SequentialStages == {"DataFetcher", "SummaryGenerator", "Critic"}

C10_ErrorResultShape ==
    (pc = "done" /\ ret.summarization_method = "error_fallback") =>
        /\ ResultKeys \subseteq DOMAIN ret
        /\ ret.query = args.query
        /\ ret.language = args.language
        /\ args.language = "hindi" => ret.ai_summary = <<"msg:error:hindi">>
        /\ args.language \in {"english", "klingon"} =>
              ret.ai_summary = <<"msg:error:english">>
        /\ ret.key_insights = <<>>
        /\ ret.confidence_score = 0
        /\ ret.source_count = 0
        /\ ret.sources = <<>>
        /\ ret.error = exc

\* A Hindi request whose DataFetcher raised on a None title has returned.
C10_Witness ==
    /\ pc = "done"
    /\ ret.summarization_method = "error_fallback"
    /\ args.language = "hindi"
    /\ args.search_results = <<RecA, RecNull>>
    /\ args.max_results = 3
    /\ Raised = {"DataFetcher"}
    /\ ret.error = "AttributeError"

\* ------------------------------------------------------------ stage ordering
\* Whether agent has a return (evs = {"return"}) or a return or raise event
\* among the first k events of the log.
EndedBefore(agent, evs, k) ==
    \E j \in 1..(k - 1) : log[j].agent = agent /\ log[j].ev \in evs

\* The stages in progress: the leaf agent a SequentialAgent is awaiting, and
\* the sub-agents of the ParallelAgent whose task was created and has not
\* finished.
InProgress ==
    (IF pc = "child" THEN {steps[ip].agent} ELSE {})
    \cup (IF pc = "par"
          THEN {steps[ip].sub_agents[i] :
                  i \in {j \in 1..Len(tasks) : tasks[j].state = "pending"}}
          ELSE {})

\* C11: in a summarize call DataFetcher has returned before ContentAnalyzer
\* or InsightExtractor is called; both have ended, by a return or by an
\* exception the ParallelAgent caught, and both have been awaited, before
\* SummaryGenerator is called; SummaryGenerator has returned before Critic
\* is called; and two stages are in progress at once only when they are
\* ContentAnalyzer and InsightExtractor.
C11_StageOrdering ==
    entry # "compose" =>
        /\ \A k \in 1..Len(log) :
              log[k].ev = "call" =>
                 /\ log[k].agent \in {"ContentAnalyzer", "InsightExtractor"} =>
                       EndedBefore("DataFetcher", {"return"}, k)
                 /\ log[k].agent = "SummaryGenerator" =>
                       /\ EndedBefore("ContentAnalyzer", {"return", "raise"}, k)
                       /\ EndedBefore("InsightExtractor", {"return", "raise"}, k)
                 /\ log[k].agent = "Critic" =>
                       EndedBefore("SummaryGenerator", {"return"}, k)
        /\ "SummaryGenerator" \in Called =>
              /\ awaited = Len(tasks)
              /\ DOMAIN results = {"ContentAnalyzer", "InsightExtractor"}
        /\ pc = "par" => "DataFetcher" \in Called \ Raised
        /\ Cardinality(InProgress) <= 2
        /\ Cardinality(InProgress) = 2 =>
              InProgress = {"ContentAnalyzer", "InsightExtractor"}

\* A call in which all five stages ran, InsightExtractor having raised and
\* ContentAnalyzer having returned before SummaryGenerator was called.
C11_Witness ==
    /\ pc = "done"
    /\ Called = {"DataFetcher", "ContentAnalyzer", "InsightExtractor",
                 "SummaryGenerator", "Critic"}
    /\ Raised = {"InsightExtractor"}
    /\ results["InsightExtractor"] = [error |-> "Fault"]
    /\ ret.summarization_method = "multi_agent_agentic"

\* ------------------------------------------------------------ sync wrapper
\* summarize_search_results_sync called, with a str language, in a thread
\* whose event loop is running.
NestedSync == entry = "sync" /\ loop_running /\ args.language # Unhashable

\* C12: summarize_search_results_sync called while the thread's event loop
\* is running ends, and ends with the error result carrying the loop's
\* RuntimeError; no agent runs, no task is created, and the coroutine made
\* for the request, which never started, is released by the time the call
\* returns.
C12_NestedSyncFails ==
    /\ [](NestedSync =>
            /\ pc \in {"call", "sync_except", "done"}
            /\ log = <<>>
            /\ tasks = NoTasks
            /\ coro \in {"none", "created", "discarded"}
            /\ pc = "done" =>
                  /\ ret.summarization_method = "error_fallback"
                  /\ ret.error = "RuntimeError"
                  /\ ret.confidence_score = 0
                  /\ coro = "discarded")
    /\ (NestedSync ~> pc = "done")

\* A nested call for a non-empty list has returned the error result.
C12_Witness ==
    /\ NestedSync
    /\ pc = "done"
    /\ args.search_results = <<RecA, RecNull>>
    /\ args.language = "hindi"
    /\ ret.ai_summary = <<"msg:error:hindi">>
    /\ ret.error = "RuntimeError"
    /\ coro = "discarded"

\* ------------------------------------------------------------ orchestrator properties
\* Whether the request has made its selection.
HasSelected == req.state \in {"executing", "normalizing", "done", "error"} /\ req.n > 0

\* The path the selection gave: the first one tried.
Selected == IF req.tried = <<>> THEN req.path ELSE req.tried[1]

\* C13: for a non-empty list and whatever configuration the request read,
\* the approach "lightweight" (force_lightweight=True) selects the heuristic
\* path and the approach "agentic" (force_agentic=True) selects the pipeline.
C13_ForceFlagsDominate ==
    HasSelected =>
        /\ ForceFlags(req.approach).force_lightweight => Selected = "heuristic"
        /\ ForceFlags(req.approach).force_agentic => Selected = "pipeline"
        /\ ~(ForceFlags(req.approach).force_lightweight
               /\ ForceFlags(req.approach).force_agentic)

\* A request for three long results, forced lightweight, that read
\* use_agentic_by_default true has returned from the heuristic path.
C13_Witness ==
    /\ req.state = "done"
    /\ req.approach = "lightweight"
    /\ req.n = 3
    /\ req.len = 400
    /\ req.seen.use_agentic_by_default
    /\ req.approach_used = "heuristic"

RequestMoves ==
    {<<"idle", "selecting">>, <<"selecting", "executing">>,
     <<"executing", "executing">>, <<"executing", "normalizing">>,
     <<"normalizing", "done">>, <<"executing", "error">>, <<"idle", "done">>}

\* C16: a request moves only along idle, selecting, executing (the heuristic
\* path, the pipeline, or the heuristic path after the pipeline), normalizing,
\* done; it enters error only from executing; it reaches done without
\* normalizing only as the no_results record of an empty list; and once
\* called it reaches done or error.
C16_RequestStateMachine ==
    /\ [](/\ req.trace[1] = "idle"
          /\ req.trace[Len(req.trace)] = req.state
          /\ \A i \in 1..(Len(req.trace) - 1) :
                <<req.trace[i], req.trace[i + 1]>> \in RequestMoves
          /\ req.state = "done" =>
                \/ "normalizing" \in Range(req.trace)
                \/ (req.n = 0 /\ req.approach_used = "no_results"
                      /\ req.trace = <<"idle", "done">>)
          /\ req.state = "idle" => req.served = 0)
    /\ (req.state = "selecting" ~> req.state \in {"done", "error"})

\* A request has gone through every state down to done, with a fallback.
C16_Witness ==
    /\ req.state = "done"
    /\ req.trace = <<"idle", "selecting", "executing", "executing", "normalizing", "done">>

\* C17: whatever the interleaving of configure calls with a summarize call,
\* the configuration the call selects against is the configuration as some
\* completed configure call (or the start) left it, and so is what
\* get_summarizer_info returns; the path taken is the one the rule gives
\* for that configuration.
C17_ConfigSerialized ==
    /\ HasSelected =>
          /\ req.seen \in applied
          /\ Selected = SelectPath(req.seen, req.n, req.len, ForceFlags(req.approach))
    /\ info \in applied \cup {NoConfig}
    /\ lock = "free" => config \in applied

\* A request selected against the configuration a two-call update left,
\* which get_summarizer_info then returned.
C17_Witness ==
    /\ upd.pc = "returned"
    /\ Cardinality(applied) = 3
    /\ req.state = "done"
    /\ req.n > 0
    /\ req.seen = config
    /\ req.seen # upd.before
    /\ info = config

\* C18: a configure call with a negative threshold is rejected before
\* anything is written: the configuration is as it was before that call,
\* and no negative threshold is ever part of the configuration.
C18_InvalidConfigRejected ==
    /\ config.min_results >= 0
    /\ config.min_content_length >= 0
    /\ upd.pc = "failed" =>
          /\ config = upd.before
          /\ lock # "configure"
          /\ upd.calls # <<>>
          /\ ~ValidCall(Head(upd.calls))

\* The thresholds call of an update was rejected, its flag call having
\* been applied.
C18_Witness ==
    /\ upd.pc = "failed"
    /\ Cardinality(applied) = 2
    /\ Head(upd.calls).min_results = -1
    /\ Head(upd.calls).keys = <<"min_results", "min_content_length">>
    /\ config = upd.before

\* ------------------------------------------------------------ AISearchSummarizer
\* max_length of _clean_and_format_summary
HeuristicMaxLength == 400

\* The selection loop of _generate_intelligent_summary over the candidates
\* left: at most 3 sentences, a source twice only among the first two.
RECURSIVE HeuristicSelect(_, _, _)
HeuristicSelect(candidates, selected_sentences, used_sources) ==
    IF candidates = <<>> \/ Len(selected_sentences) >= 3 THEN selected_sentences
    ELSE LET sentence_data == Head(candidates)
         IN  IF sentence_data.source \notin used_sources \/ Len(selected_sentences) < 2
             THEN HeuristicSelect(Tail(candidates),
                                  Append(selected_sentences, sentence_data),
                                  used_sources \cup {sentence_data.source})
             ELSE HeuristicSelect(Tail(candidates), selected_sentences, used_sources)

\* The loop of _clean_and_format_summary: truncated takes each sentence and
\* a blank until the next sentence would pass max_length characters.
RECURSIVE HeuristicCut(_, _, _)
HeuristicCut(sentences, truncated, truncated_len) ==
    IF sentences = <<>> THEN truncated
    ELSE IF truncated_len + CharLen(Head(sentences)) > HeuristicMaxLength
         THEN truncated
         ELSE HeuristicCut(Tail(sentences), truncated \o Head(sentences),
                           truncated_len + CharLen(Head(sentences)) + 1)

\* Variant of CleanAndFormatSummary without the length limit.
CleanAndFormatSummaryUncut(text) == text

\* _clean_and_format_summary.  The text has single blanks and single
\* terminators already, so the two re.sub calls leave it as it is.
CleanAndFormatSummary(text) ==
    LET truncated == HeuristicCut(SplitSentences(text, <<>>), <<>>, 0)
    IN  IF CharLen(text) > HeuristicMaxLength
        THEN (IF truncated # <<>> /\ truncated[Len(truncated)] = "."
              THEN truncated
              ELSE truncated \o <<"...">>)
        ELSE text

\* _generate_intelligent_summary, on analysis['sentences'].  The "no_content"
\* text of _get_default_message is the label followed by the message of
\* _get_no_content_message.
GenerateIntelligentSummary(sentences, language) ==
    LET top_sentences == SortedDesc(sentences, "score")
        selected_sentences == HeuristicSelect(Take(top_sentences, 6), <<>>, {})
        summary_text == Flatten([i \in 1..Len(selected_sentences) |->
                                    selected_sentences[i].text])
    IN  IF sentences = <<>>
        THEN FormatSummaryForLanguage(GetNoContentMessage(language), language)
        ELSE FormatSummaryForLanguage(CleanAndFormatSummary(summary_text), language)

\* ------------------------------------------------------------ summary text on its own
\* Scored sentences as _analyze_search_results and ContentAnalyzerAgent
\* produce them: more than 4 words, no terminator inside.
SummarySentences ==
    {[text |-> <<"Arctic", "ice", "melts", "at", "record", "rate">>,
      score |-> 900, source |-> "a.org", position |-> 0],
     [text |-> <<"<words:190>">>, score |-> 800, source |-> "b.org", position |-> 1],
     [text |-> <<"<words:390>">>, score |-> 600, source |-> "a.org", position |-> 0],
     [text |-> <<"<words:200>", "warming">>,
      score |-> 500, source |-> "c.org", position |-> 2]}

\* The summary text of one request is about to be built, by the pipeline's
\* SummaryGeneratorAgent and CriticAgent or by the heuristic summarizer.  The
\* pipeline's list was sorted by ContentAnalyzerAgent.  A list is up to 3
\* sentences, alone or after 1 or 10 more copies of its first one.
InitText ==
    /\ entry = "text"
    /\ loop_running = TRUE
    /\ args \in {a \in [sentences : {[i \in 1..k |-> Head(s)] \o s :
                                        s \in SeqsUpTo(SummarySentences, 3) \ {<<>>},
                                        k \in {0, 1, 10}} \cup {<<>>},
                         language : {"english", "hindi", "klingon"},
                         query : {<<"climate">>},
                         path : {"pipeline", "heuristic"}] :
                    a.path = "pipeline" => a.sentences = SortedDesc(a.sentences, "score")}
    /\ steps = <<>>
    /\ pc = "call"
    /\ ip = 1
    /\ ctx = <<>>
    /\ ctx0 = <<>>
    /\ tasks = NoTasks
    /\ results = <<>>
    /\ awaited = 0
    /\ exc = ""
    /\ log = <<>>
    /\ ret = NoneVal
    /\ coro = "none"
    /\ HybridIdle
    /\ AuxIdle

\* SummaryGeneratorAgent.run_async, then CriticAgent.run_async on its context:
\* final_summary is the text the pipeline returns as ai_summary.
PipelineSummaryText ==
    /\ pc = "call"
    /\ args.path = "pipeline"
    /\ LET context == Put(Put(Put(Put(<<>>,
                           "analyzed_sentences", args.sentences),
                           "themes", <<>>),
                           "language", args.language),
                           "query", args.query)
       IN  /\ ctx' = Critic(SummaryGenerator(context).context).context
           /\ ret' = ctx'["final_summary"]
    /\ pc' = "done"
    /\ UNCHANGED <<auxVars, hybVars, entry, loop_running, args, steps, ip, ctx0, tasks,
                   results, awaited, exc, log, coro>>

\* _generate_intelligent_summary: the ai_summary of the heuristic path.
HeuristicSummaryText ==
    /\ pc = "call"
    /\ args.path = "heuristic"
    /\ ret' = GenerateIntelligentSummary(args.sentences, args.language)
    /\ pc' = "done"
    /\ UNCHANGED <<auxVars, hybVars, entry, loop_running, args, steps, ip, ctx,
                   ctx0, tasks, results, awaited, exc, log, coro>>

NextText ==
    \/ PipelineSummaryText
    \/ HeuristicSummaryText

SpecText == InitText /\ [][NextText]_vars

\* ------------------------------------------------------------ summary length
\* The language label with its trailing blank, as both paths put it in front
\* of the cut text.
LabelLen(language) == CharLen(FormatSummaryForLanguage(<<>>, language)) + 1

\* A summary text has been built.
TextBuilt == entry = "text" /\ pc = "done"

\* C20 as stated: on either path the summary text returned is at most 400
\* characters plus the length of the ellipsis marker.
C20_AtMostMaxLengthPlusEllipsis ==
    TextBuilt => CharLen(ret) <= MaxLength + TokLen("...")

\* C20, amended: on either path the summary text returned is at most the
\* language label followed by 400 characters; the limit of 400 is applied to
\* the text before the label is put in front of it, and a text that is cut
\* comes back as the label and the ellipsis marker (on the pipeline path with
\* the clarification for short summaries after it).
C20_AtMostLabelPlusMaxLength ==
    TextBuilt =>
        /\ CharLen(ret) <= LabelLen(args.language) + MaxLength
        /\ CharLen(ret) > MaxLength + TokLen("...") =>
                "..." \notin Range(ret)
        /\ "..." \in Range(ret) =>
                CharLen(ret) <= MaxLength + TokLen("...")

\* A text of more than 400 characters and the ellipsis marker came back on the
\* heuristic path: the label followed by an uncut text.
C20_Witness ==
    /\ TextBuilt
    /\ args.path = "heuristic"
    /\ CharLen(ret) > MaxLength + TokLen("...")

\* ------------------------------------------------------------ idempotence
\* The tasks of a ParallelAgent run one after the other in the order of
\* registration, from task i on.
RECURSIVE ReferenceTasks(_, _, _, _, _)
ReferenceTasks(ts, outer, agents, i, faults) ==
    IF i > Len(ts) THEN [tasks |-> ts, outer |-> outer]
    ELSE LET run == RunTask(ts, outer, agents, i, faults)
         IN  ReferenceTasks(run.tasks, run.outer, agents, i + 1, faults)

\* main_workflow.run_async(context) from the steps left, then
\* _compile_final_result, or _generate_error_result at the first exception
\* that leaves the workflow: the result of run_async as a function of the
\* context and of the agents that fail for a reason outside the data.
RECURSIVE ReferenceRun(_, _, _)
ReferenceRun(stps, context, faults) ==
    IF stps = <<>> THEN CompileFinalResult(context)
    ELSE LET step == Head(stps)
             agents == step.sub_agents
             ran == ReferenceTasks(
                        [i \in 1..Len(agents) |-> NewTask(ContextCopy(context))],
                        context, agents, 1, faults)
             res == [n \in Range(agents) |->
                        LET i == CHOOSE j \in 1..Len(agents) : agents[j] = n
                        IN  IF ran.tasks[i].state = "failed"
                            THEN [error |-> ran.tasks[i].error]
                            ELSE [task |-> i]]
             r == RunAgent(step.agent, context, faults)
         IN  IF step.parallel
             THEN ReferenceRun(Tail(stps),
                               IF agents = <<>> THEN context
                               ELSE MergeResults(ran.outer, res, ran.tasks),
                               faults)
             ELSE IF r.ok THEN ReferenceRun(Tail(stps), r.context, faults)
                  ELSE GenerateErrorResult(context, r.error)

\* What summarize_search_results and summarize_search_results_sync return
\* for arguments a, by the entry point e, the state lr of the thread's event
\* loop and the agents that fail for a reason outside the data.
ReferenceResult(e, lr, a, faults) ==
    IF e = "sync" /\ lr
    THEN GenerateErrorResult([query |-> a.query, language |-> a.language],
                             "RuntimeError")
    ELSE IF a.search_results = <<>>
         THEN GenerateNoResultsSummary(a.query, a.language)
         ELSE ReferenceRun(SequentialSteps(SubAgents("MainWorkflow")),
                           PrepareContext(a), faults)

\* The agents that failed for a reason outside the data in the call so far.
FaultsSeen ==
    (IF exc = "Fault" /\ ip <= Len(steps) THEN {steps[ip].agent} ELSE {})
    \cup {SubAgents("AnalysisPhase")[i] :
            i \in {j \in 1..Len(tasks) : tasks[j].error = "Fault"}}

\* The fields of a result that the caller compares.
Outcome(result) ==
    <<result.ai_summary, result.key_insights, result.confidence_score>>

\* C19: two summarize calls with identical results, query, language and
\* options return identical summary text, key_insights and confidence: what a
\* call returns is a function of its arguments (and of the failures the
\* interpreter injects), whatever the order in which the event loop runs the
\* tasks of the analysis phase.
C19_Idempotent ==
    (entry \in {"async", "sync"} /\ pc = "done") =>
        Outcome(ret) = Outcome(ReferenceResult(entry, loop_running, args, FaultsSeen))

\* A call returned a compiled result with an insight, the task of
\* InsightExtractor having run before that of ContentAnalyzer.
C19_Witness ==
    /\ entry \in {"async", "sync"}
    /\ pc = "done"
    /\ ret.summarization_method = "multi_agent_agentic"
    /\ ret.key_insights # <<>>
    /\ \E j \in 1..Len(log) : \E k \in (j + 1)..Len(log) :
          /\ log[j].agent = "InsightExtractor" /\ log[j].ev = "return"
          /\ log[k].agent = "ContentAnalyzer" /\ log[k].ev = "return"

\* ------------------------------------------------------------ sentence selection
\* C21: for every score-sorted candidate list the selection accepts at most 3
\* sentences, all among the first 10 candidates and in their order, and among
\* the accepted sentences at most one pair shares a source: a third sentence
\* is accepted only from a source not yet used.
C21_SelectionDiversity ==
    (TextBuilt /\ args.path = "pipeline") =>
        LET selected == ctx["summary_sentences"]
            scanned == Take(args.sentences, 10)
        IN  /\ Len(selected) <= 3
            /\ \E at \in [1..Len(selected) -> 1..Len(scanned)] :
                  /\ \A i \in 1..Len(selected) : scanned[at[i]] = selected[i]
                  /\ \A i \in 1..(Len(selected) - 1) : at[i] < at[i + 1]
            /\ Cardinality({p \in (1..Len(selected)) \X (1..Len(selected)) :
                    p[1] < p[2] /\ selected[p[1]].source = selected[p[2]].source}) <= 1
            /\ Len(selected) = 3 =>
                  selected[3].source \notin {selected[1].source, selected[2].source}

\* Three sentences were accepted, the first two from one source, after a
\* candidate of that source was passed over.
C21_Witness ==
    /\ TextBuilt
    /\ args.path = "pipeline"
    /\ Len(ctx["summary_sentences"]) = 3
    /\ ctx["summary_sentences"][1].source = ctx["summary_sentences"][2].source
    /\ Len(args.sentences) > 3

\* ------------------------------------------------------------ result records
\* AISearchSummarizer.summarize_search_results: the fields of the result that
\* are built from the arguments alone (ai_summary, key_insights and
\* confidence_score are left out), for records whose title and snippet are str.
HeuristicSummarize(a) ==
    IF a.search_results = <<>>
    THEN [query |-> a.query,
          language |-> a.language,
          source_count |-> 0,
          sources |-> <<>>,
          timestamp |-> Timestamp,
          summarization_method |-> "fallback"]
    ELSE [query |-> a.query,
          language |-> a.language,
          source_count |-> Len(a.search_results),
          sources |-> [i \in 1..Len(Take(a.search_results, a.max_results)) |->
                          Get(a.search_results[i], "source", "Unknown")],
          timestamp |-> Timestamp,
          summarization_method |-> "intelligent_rule_based"]

\* A summarize call on either summarizer, with any list of up to MaxListed
\* results and any max_results.
InitResult ==
    /\ entry = "result"
    /\ loop_running = TRUE
    /\ args \in [search_results : SeqsUpTo({RecA, RecWith, RecSparse}, MaxListed),
                  query : {<<"climate", "warm">>},
                  language : {"english", "klingon"},
                  max_results : {0, 1, 3, 5},
                  path : {"pipeline", "heuristic"}]
    /\ steps = <<>>
    /\ pc = "call"
    /\ ip = 1
    /\ ctx = <<>>
    /\ ctx0 = <<>>
    /\ tasks = NoTasks
    /\ results = <<>>
    /\ awaited = 0
    /\ exc = ""
    /\ log = <<>>
    /\ ret = NoneVal
    /\ coro = "none"
    /\ HybridIdle
    /\ AuxIdle

\* AgenticSummarizer.summarize_search_results up to run_async: the
\* no-results summary for an empty list, else the context of the workflow.
PipelineResultStart ==
    /\ pc = "call"
    /\ args.path = "pipeline"
    /\ IF args.search_results = <<>>
       THEN /\ ret' = GenerateNoResultsSummary(args.query, args.language)
            /\ pc' = "done"
            /\ UNCHANGED <<steps, ctx>>
       ELSE /\ steps' = SequentialSteps(SubAgents("MainWorkflow"))
            /\ ctx' = PrepareContext(args)
            /\ pc' = "run"
            /\ UNCHANGED ret
    /\ UNCHANGED <<auxVars, hybVars, entry, loop_running, args, ip, ctx0,
                   tasks, results, awaited, exc, log, coro>>

\* A step of main_workflow.run_async that is a single agent, from its call to
\* its return; an exception ends the call with the error result.
PipelineResultStep ==
    /\ pc = "run"
    /\ ip <= Len(steps)
    /\ ~steps[ip].parallel
    /\ LET r == RunAgent(steps[ip].agent, ctx, {})
       IN  IF r.ok
           THEN /\ ctx' = r.context
                /\ ip' = ip + 1
                /\ UNCHANGED <<pc, ret>>
           ELSE /\ ret' = GenerateErrorResult(ctx, r.error)
                /\ pc' = "done"
                /\ UNCHANGED <<ctx, ip>>
    /\ UNCHANGED <<auxVars, hybVars, entry, loop_running, args, steps, ctx0,
                   tasks, results, awaited, exc, log, coro>>

\* The analysis phase creates its tasks, each on a copy of the context.
PipelineResultSpawn ==
    /\ pc = "run"
    /\ ip <= Len(steps)
    /\ steps[ip].parallel
    /\ tasks' = [i \in 1..Len(steps[ip].sub_agents) |-> NewTask(ContextCopy(ctx))]
    /\ results' = <<>>
    /\ awaited' = 0
    /\ pc' = "par"
    /\ UNCHANGED <<auxVars, hybVars, entry, loop_running, args, steps, ip, ctx,
                   ctx0, exc, log, ret, coro>>

\* The next task of the analysis phase runs and is awaited; the tasks are
\* taken in the order of registration, which does not change what they
\* return.
PipelineResultTask ==
    /\ pc = "par"
    /\ awaited < Len(tasks)
    /\ LET run == RunTask(tasks, ctx, steps[ip].sub_agents, awaited + 1, {})
       IN  /\ tasks' = run.tasks
           /\ ctx' = run.outer
           /\ results' = Put(results, steps[ip].sub_agents[awaited + 1],
                             IF run.ok THEN [task |-> awaited + 1]
                             ELSE [error |-> run.tasks[awaited + 1].error])
    /\ awaited' = awaited + 1
    /\ UNCHANGED <<auxVars, hybVars, entry, loop_running, args, steps, pc, ip,
                   ctx0, exc, log, ret, coro>>

\* context['parallel_results'] = results, and the next step.
PipelineResultMerge ==
    /\ pc = "par"
    /\ awaited = Len(tasks)
    /\ ctx' = MergeResults(ctx, results, tasks)
    /\ tasks' = NoTasks
    /\ ip' = ip + 1
    /\ pc' = "run"
    /\ UNCHANGED <<auxVars, hybVars, entry, loop_running, args, steps, ctx0,
                   results, awaited, exc, log, ret, coro>>

\* _compile_final_result after the last step.
PipelineResult ==
    /\ pc = "run"
    /\ ip > Len(steps)
    /\ ret' = CompileFinalResult(ctx)
    /\ pc' = "done"
    /\ UNCHANGED <<auxVars, hybVars, entry, loop_running, args, steps, ip, ctx,
                   ctx0, tasks, results, awaited, exc, log, coro>>

\* AISearchSummarizer.summarize_search_results, from the call to the result.
HeuristicResult ==
    /\ pc = "call"
    /\ args.path = "heuristic"
    /\ ret' = HeuristicSummarize(args)
    /\ pc' = "done"
    /\ UNCHANGED <<auxVars, hybVars, entry, loop_running, args, steps, ip, ctx,
                   ctx0, tasks, results, awaited, exc, log, coro>>

NextResult ==
    \/ PipelineResultStart
    \/ PipelineResultStep
    \/ PipelineResultSpawn
    \/ PipelineResultTask
    \/ PipelineResultMerge
    \/ PipelineResult
    \/ HeuristicResult

SpecResult == InitResult /\ [][NextResult]_vars

\* C22: for any result list and any max_results the returned sources list
\* has at most 3 entries, in input order, and source_count is the number of
\* results that were summarized (the first max_results of the list), on the
\* heuristic and on the pipeline path.
C22_ResultBounds ==
    (entry = "result" /\ pc = "done") =>
        /\ Len(ret.sources) <= 3
        /\ Len(ret.sources) <= Len(args.search_results)
        /\ \A i \in 1..Len(ret.sources) :
              ret.sources[i] = Get(args.search_results[i], "source", ret.sources[i])
        /\ ret.source_count = Len(Take(args.search_results, args.max_results))

\* The same, on the pipeline path alone.
C22_PipelineResultBounds == args.path = "pipeline" => C22_ResultBounds

\* ------------------------------------------------------------ unknown language
\* The result of the same pipeline call made with the tag "english", under
\* the tag of the call.
AsEnglish ==
    [ReferenceResult("async", TRUE, [args EXCEPT !.language = "english"], {})
        EXCEPT !.language = args.language]

\* A pipeline call with a language tag outside the tables has returned.
UnknownTagDone ==
    /\ entry = "result"
    /\ pc = "done"
    /\ args.path = "pipeline"
    /\ args.language \notin KnownLanguages

\* C23: for a language tag outside {hindi, telugu, marathi, english} every
\* stage completes without error and uses the english table, for the labels
\* and messages and for the stop words of theme extraction: the call returns
\* what it returns for "english".
C23_UnknownTagAsEnglish ==
    UnknownTagDone =>
        /\ ret.summarization_method # "error_fallback"
        /\ ret = AsEnglish

\* The part of C23 about errors, labels and messages: no stage fails, and the
\* summary text, the insights and the confidence are those of "english".
C23_UnknownTagLabelsAsEnglish ==
    UnknownTagDone =>
        /\ ret.summarization_method # "error_fallback"
        /\ Outcome(ret) = Outcome(AsEnglish)

\* ------------------------------------------------------------ the wired pipeline
\* A call returned the result compiled by _compile_final_result.
Compiled ==
    /\ entry \in {"async", "sync"}
    /\ pc = "done"
    /\ ret.summarization_method = "multi_agent_agentic"

\* The dict the task of a sub-agent of the analysis phase returned.
AnalysisResult(agent) == ctx["parallel_results"][agent]

\* C25: in a pipeline run where ContentAnalyzer retains at least one sentence,
\* SummaryGenerator reads that analyzed_sentences list, so the summary is
\* built from selected sentences and is not the "insufficient content"
\* message.
C25_AnalysisReachesGeneration ==
    (/\ Compiled
     /\ "analyzed_sentences" \in DOMAIN AnalysisResult("ContentAnalyzer")
     /\ AnalysisResult("ContentAnalyzer")["analyzed_sentences"] # <<>>) =>
        /\ ctx["summary_sentences"] # <<>>
        /\ ctx["generated_summary"] #
              FormatSummaryForLanguage(GetNoContentMessage(args.language), args.language)

\* C28: InsightExtractor runs on its own copy of the context DataFetcher
\* returned and never sees themes or entities: when it has returned, the
\* key_insights of the result is the source-diversity note alone if the
\* prepared results come from more than one distinct source, and empty
\* otherwise; it holds no themes or entities insight and at most 3 entries.
C28_WiredInsights ==
    (Compiled /\ "key_insights" \in DOMAIN AnalysisResult("InsightExtractor")) =>
        LET sources == {ctx["processed_results"][i].source :
                            i \in 1..Len(ctx["processed_results"])}
        IN  /\ ret.key_insights =
                  IF Cardinality(sources) > 1
                  THEN <<FormatSourceInsight(Cardinality(sources), args.language)>>
                  ELSE <<>>
            /\ Len(ret.key_insights) <= 3
            /\ \A j \in 1..Len(ret.key_insights) :
                  ret.key_insights[j].insight \notin {"key_topics", "key_entities"}

\* A compiled result carries the source-diversity note while ContentAnalyzer
\* found themes: InsightExtractor saw none of them.
C28_Witness ==
    /\ Compiled
    /\ Len(ret.key_insights) = 1
    /\ ret.execution_details.themes_found > 0

\* ------------------------------------------------------------ a stage on its own
\* The context a pipeline run on search_results builds, every key at the
\* top level.
FullContext(search_results) ==
    Critic(SummaryGenerator(ContentAnalyzer(DataFetcher(
        [search_results |-> search_results,
         query |-> <<"climate", "warm">>,
         language |-> "english"]).context).context).context).context

\* The keys the five agents read.
StageInputKeys ==
    {"search_results", "query", "language", "processed_results",
     "analyzed_sentences", "themes", "entities", "generated_summary"}

\* run_async of one of the five agents is called on a context that holds
\* any part of the keys the agents read; the search results are records
\* whose title, snippet and source are str or absent.
InitStage ==
    /\ entry = "stage"
    /\ loop_running = TRUE
    /\ args \in [agent : {"DataFetcher", "ContentAnalyzer", "InsightExtractor",
                           "SummaryGenerator", "Critic"},
                  context : {[k \in keys |-> FullContext(search_results)[k]] :
                               keys \in SUBSET StageInputKeys,
                               search_results \in
                                   SeqsUpTo({RecA, RecWith, RecSparse}, MaxResults)}]
    /\ steps = <<>>
    /\ pc = "call"
    /\ ip = 1
    /\ ctx = <<>>
    /\ ctx0 = <<>>
    /\ tasks = NoTasks
    /\ results = <<>>
    /\ awaited = 0
    /\ exc = ""
    /\ log = <<>>
    /\ ret = NoneVal
    /\ coro = "none"
    /\ HybridIdle
    /\ AuxIdle

\* await agent.run_async(context): the agent returns its context (ctx) or
\* raises (exc).
RunStage ==
    /\ pc = "call"
    /\ LET r == RunAgent(args.agent, args.context, {})
       IN  /\ ctx' = r.context
           /\ exc' = r.error
           /\ pc' = IF r.ok THEN "done" ELSE "raised"
    /\ UNCHANGED <<auxVars, hybVars, entry, loop_running, args, steps, ip, ctx0, tasks,
                   results, awaited, log, ret, coro>>

SpecStage == InitStage /\ [][RunStage]_vars

\* The values an agent writes when the keys it reads are all absent.
StageDefaults(agent) ==
    CASE agent = "DataFetcher"      -> [processed_results |-> <<>>]
      [] agent = "ContentAnalyzer"  -> [analyzed_sentences |-> <<>>, themes |-> <<>>,
                                        entities |-> <<>>]
      [] agent = "InsightExtractor" -> [key_insights |-> <<>>]
      [] agent = "SummaryGenerator" ->
            [generated_summary |->
                FormatSummaryForLanguage(GetNoContentMessage("english"), "english"),
             summary_sentences |-> <<>>]
      [] OTHER -> [quality_score |-> 0]

\* C26: each of the five agents, run on a context from which any of its input
\* keys is absent (the empty context included), returns normally and writes
\* all of its output keys; on the empty context they hold the empty or
\* default values.
C26_AbsentKeysTolerated ==
    (entry = "stage" /\ pc # "call") =>
        /\ pc = "done"
        /\ Assigned(args.agent) \subseteq DOMAIN ctx
        /\ args.context = <<>> =>
              \A k \in DOMAIN StageDefaults(args.agent) :
                  ctx[k] = StageDefaults(args.agent)[k]

\* The critic has run on a context that holds a query and no summary.
C26_Witness ==
    /\ entry = "stage"
    /\ pc = "done"
    /\ args.agent = "Critic"
    /\ "generated_summary" \notin DOMAIN args.context
    /\ "query" \in DOMAIN args.context

\* C27: for every input list, the empty one included, DataFetcher returns
\* normally with processed_results of the length of search_results, the i-th
\* record made from the i-th input record with its position, and every other
\* incoming key unchanged.
C27_DataPreparationShape ==
    (entry = "stage" /\ pc # "call" /\ args.agent = "DataFetcher") =>
        LET search_results == Get(args.context, "search_results", <<>>)
            processed_results == ctx["processed_results"]
        IN  /\ pc = "done"
            /\ Len(processed_results) = Len(search_results)
            /\ \A i \in 1..Len(search_results) :
                  /\ processed_results[i].position = i - 1
                  /\ processed_results[i].source =
                        Get(search_results[i], "source", "unknown")
                  /\ processed_results[i].title =
                        CleanText(Get(search_results[i], "title", <<>>))
                  /\ processed_results[i].snippet =
                        CleanText(Get(search_results[i], "snippet", <<>>))
            /\ \A k \in DOMAIN args.context \ {"processed_results"} :
                  ctx[k] = args.context[k]
            /\ DOMAIN ctx = DOMAIN args.context \cup Assigned("DataFetcher")

\* DataFetcher has prepared a list of two records, one of them without a
\* snippet.
C27_Witness ==
    /\ entry = "stage"
    /\ pc = "done"
    /\ args.agent = "DataFetcher"
    /\ "search_results" \in DOMAIN args.context
    /\ Len(ctx["processed_results"]) = 2
    /\ ctx["processed_results"][2].snippet = <<>>

\* ------------------------------------------------------------ HindiNode
\* BaseLanguageNode._update_metrics, on the two counters (the average
\* response time and last_updated are not followed).
UpdateMetrics(metrics, query_success) ==
    [total_queries |-> metrics.total_queries + 1,
     successful_queries |->
        metrics.successful_queries + (IF query_success THEN 1 ELSE 0)]

\* A HindiNode of either copy after initialize(): _initialize_metrics has
\* set the counters to 0.
InitNode ==
    /\ PipelineIdle
    /\ HybridIdle
    /\ FederationIdle
    /\ CacheIdle
    /\ hindi_node \in {"backend", "federated"}
    /\ performance_metrics = [total_queries |-> 0, successful_queries |-> 0]
    /\ query_history = 0
    /\ answers = [calls |-> 0, errors |-> 0]

\* HindiNode.process_query, from the call to the return.  A step of the try
\* block before the metrics update raises (a query that is no str) or none
\* does.  The copy under backend/ adds 1 to total_queries on entry and 1 to
\* successful_queries before it returns the result, besides calling
\* _update_metrics; the other copy only calls _update_metrics.
ProcessQuery ==
    /\ hindi_node # "none"
    /\ answers.calls < MaxQueries
    /\ \E raises \in BOOLEAN :
          LET entered ==
                  IF hindi_node = "backend"
                  THEN [performance_metrics EXCEPT
                            !.total_queries = performance_metrics.total_queries + 1]
                  ELSE performance_metrics
              updated == UpdateMetrics(entered, ~raises)
          IN  /\ performance_metrics' =
                    IF hindi_node = "backend" /\ ~raises
                    THEN [updated EXCEPT
                            !.successful_queries = updated.successful_queries + 1]
                    ELSE updated
              /\ query_history' = IF raises THEN query_history ELSE query_history + 1
              /\ answers' = [calls |-> answers.calls + 1,
                             errors |-> answers.errors + (IF raises THEN 1 ELSE 0)]
    /\ UNCHANGED <<pipeVars, hybVars, fedVars, cacheVars, hindi_node>>

SpecNode == InitNode /\ [][ProcessQuery]_vars

\* C24: after any sequence of n process_query calls on an initialized
\* HindiNode, total_queries is n and successful_queries is the number of calls
\* that returned without an error.
C24_QueryMetrics ==
    hindi_node # "none" =>
        /\ performance_metrics.total_queries = answers.calls
        /\ performance_metrics.successful_queries = answers.calls - answers.errors

\* The same, for the copy under globalMind-federated-search alone.
C24_FederatedQueryMetrics == hindi_node = "federated" => C24_QueryMetrics

\* ------------------------------------------------ FederatedCoordinator
\* A FederatedCoordinator after construction: no global model state, round 0.
InitFederation ==
    /\ PipelineIdle
    /\ HybridIdle
    /\ NodeIdle
    /\ CacheIdle
    /\ is_training = FALSE
    /\ federation_round = 0
    /\ global_model_state = [set |-> FALSE, round |-> 0]
    /\ rounds = <<>>

\* initialize_federation: it never suspends, _check_node_availability has no
\* await that yields.
InitializeFederation ==
    /\ global_model_state' = [set |-> TRUE, round |-> 0]
    /\ UNCHANGED <<pipeVars, hybVars, nodeVars, cacheVars,
                   is_training, federation_round, rounds>>

\* start_federated_round from the call to its first suspension, the sleep of
\* _distribute_global_model, or to its return when is_training is set.
StartFederatedRound ==
    /\ Len(rounds) < MaxRoundCalls
    /\ IF is_training
       THEN /\ rounds' = Append(rounds,
                    [pc |-> "done", error |-> "Federation round already in progress",
                     round_number |-> 0])
            /\ UNCHANGED <<is_training, federation_round>>
       ELSE /\ is_training' = TRUE
            /\ federation_round' = federation_round + 1
            /\ rounds' = Append(rounds,
                    [pc |-> "distribute", error |-> "", round_number |-> 0])
    /\ UNCHANGED <<pipeVars, hybVars, nodeVars, cacheVars, global_model_state>>

\* The call resumes after the sleep of _distribute_global_model and runs
\* _collect_local_updates up to its sleep; reading participating_nodes of a
\* global_model_state that is None raises TypeError, which the except clause
\* turns into an error result before finally clears is_training.
RoundDistributed(i) ==
    /\ rounds[i].pc = "distribute"
    /\ IF global_model_state.set
       THEN /\ rounds' = [rounds EXCEPT ![i].pc = "collect"]
            /\ UNCHANGED is_training
       ELSE /\ rounds' = [rounds EXCEPT ![i].pc = "done", ![i].error = "TypeError"]
            /\ is_training' = FALSE
    /\ UNCHANGED <<pipeVars, hybVars, nodeVars, cacheVars,
                   federation_round, global_model_state>>

\* The call resumes after the sleep of _collect_local_updates: the updates
\* are aggregated under the current federation_round, the global model state
\* is replaced, the result is built and finally clears is_training.
RoundCollected(i) ==
    /\ rounds[i].pc = "collect"
    /\ global_model_state' = [set |-> TRUE, round |-> federation_round]
    /\ rounds' = [rounds EXCEPT ![i].pc = "done",
                                ![i].round_number = federation_round]
    /\ is_training' = FALSE
    /\ UNCHANGED <<pipeVars, hybVars, nodeVars, cacheVars, federation_round>>

\* shutdown.
Shutdown ==
    /\ is_training' = FALSE
    /\ UNCHANGED <<pipeVars, hybVars, nodeVars, cacheVars,
                   federation_round, global_model_state, rounds>>

RoundSteps ==
    \/ InitializeFederation
    \/ StartFederatedRound
    \/ \E i \in 1..Len(rounds) : RoundDistributed(i)
    \/ \E i \in 1..Len(rounds) : RoundCollected(i)

NextFederation == RoundSteps \/ Shutdown

SpecFederation == InitFederation /\ [][NextFederation]_vars

\* The same coordinator when shutdown is never called.
SpecRoundsOnly == InitFederation /\ [][RoundSteps]_vars

\* The calls that are between their start and their finish.
RoundsInProgress == {i \in 1..Len(rounds) : rounds[i].pc # "done"}

\* A start_federated_round call arrives while a round is in progress.
ArrivesDuringRound == Len(rounds') = Len(rounds) + 1 /\ RoundsInProgress # {}

\* A round ends.
RoundEnds == \E i \in RoundsInProgress : rounds'[i].pc = "done"

\* C29: under any interleaving of start_federated_round and shutdown calls on
\* one FederatedCoordinator at most one round is between its start and its
\* finish; a call that arrives while a round is in progress returns the
\* "already in progress" error and leaves federation_round alone; is_training
\* is false after every round ends.
C29_RoundMutualExclusion ==
    /\ [](Cardinality(RoundsInProgress) <= 1)
    /\ [][ArrivesDuringRound =>
            /\ rounds'[Len(rounds')].error = "Federation round already in progress"
            /\ federation_round' = federation_round]_vars
    /\ [][RoundEnds => ~is_training']_vars

\* The last part of C29 on its own: finally clears the flag when a round ends.
C29_TrainingClearedAtEnd == [][RoundEnds => ~is_training']_vars

\* ------------------------------------------- RealWorldDataAggregator
\* cache_timeout (3600 s), in ticks of the clock.
CacheTimeout == 2

\* The queries asked, as word tokens; "_" is a character a query may hold.
CacheQueries == {<<"holi">>, <<"holi", "_", "hindi">>}

\* The languages the callers pass: keys of LANGUAGE_NODES, fixed per node.
CacheLanguages == {"hindi", "telugu"}

\* cache_key = f"{query}_{language}".
CacheKey(query, language) == query \o <<"_", language>>

\* A RealWorldDataAggregator after construction, with or without the
\* summarizer that _initialize_ai_summarizer imports.
InitCache ==
    /\ PipelineIdle
    /\ HybridIdle
    /\ NodeIdle
    /\ FederationIdle
    /\ ai_summarizer \in BOOLEAN
    /\ cache = <<>>
    /\ clock = 0
    /\ work = [searches |-> 0, summaries |-> 0]
    /\ answer = [query |-> <<>>, language |-> "", result |-> NoResult,
                 origin |-> "none"]

\* get_real_world_context with the store left out when the search found
\* nothing.
GetRealWorldContextSkipsEmpty ==
    \E query \in CacheQueries, language \in CacheLanguages,
       found \in {0, 1}, cultural_context \in {"dict", "None"} :
        LET cache_key == CacheKey(query, language)
            cached == /\ cache_key \in DOMAIN cache
                      /\ clock - cache[cache_key].timestamp < CacheTimeout
            result == [query |-> query, language |-> language,
                       serial |-> work.searches + 1, total_results |-> found]
            raises == found > 0 /\ cultural_context = "None"
        IN  /\ cached \/ work.searches < MaxSearches
            /\ IF cached
               THEN /\ answer' = [query |-> query, language |-> language,
                                  result |-> cache[cache_key].result,
                                  origin |-> "cache"]
                    /\ UNCHANGED <<cache, work>>
               ELSE /\ work' = [searches |-> work.searches + 1,
                                summaries |-> work.summaries
                                              + (IF ai_summarizer THEN 1 ELSE 0)]
                    /\ cache' =
                         IF raises \/ found = 0 THEN cache
                         ELSE [k \in DOMAIN cache \cup {cache_key} |->
                                 IF k = cache_key
                                 THEN [result |-> result, timestamp |-> clock]
                                 ELSE cache[k]]
                    /\ answer' = [query |-> query, language |-> language,
                                  result |-> IF raises THEN NoResult ELSE result,
                                  origin |-> IF raises THEN "raised" ELSE "search"]
            /\ UNCHANGED <<pipeVars, hybVars, nodeVars, fedVars,
                           ai_summarizer, clock>>

\* get_real_world_context, from the call to the return; the clock does not
\* move during the call.  The search returns a list with or without results
\* (it catches its own exceptions); _create_cultural_summary raises
\* AttributeError for a cultural_context of None when there are results, and
\* then nothing is stored.  Each result carries the serial number of the
\* search that produced it.
GetRealWorldContext ==
    \E query \in CacheQueries, language \in CacheLanguages,
       found \in {0, 1}, cultural_context \in {"dict", "None"} :
        LET cache_key == CacheKey(query, language)
            cached == /\ cache_key \in DOMAIN cache
                      /\ clock - cache[cache_key].timestamp < CacheTimeout
            result == [query |-> query, language |-> language,
                       serial |-> work.searches + 1, total_results |-> found]
            raises == found > 0 /\ cultural_context = "None"
        IN  /\ cached \/ work.searches < MaxSearches
            /\ IF cached
               THEN /\ answer' = [query |-> query, language |-> language,
                                  result |-> cache[cache_key].result,
                                  origin |-> "cache"]
                    /\ UNCHANGED <<cache, work>>
               ELSE /\ work' = [searches |-> work.searches + 1,
                                summaries |-> work.summaries
                                              + (IF ai_summarizer THEN 1 ELSE 0)]
                    /\ cache' =
                         IF raises THEN cache
                         ELSE [k \in DOMAIN cache \cup {cache_key} |->
                                 IF k = cache_key
                                 THEN [result |-> result, timestamp |-> clock]
                                 ELSE cache[k]]
                    /\ answer' = [query |-> query, language |-> language,
                                  result |-> IF raises THEN NoResult ELSE result,
                                  origin |-> IF raises THEN "raised" ELSE "search"]
            /\ UNCHANGED <<pipeVars, hybVars, nodeVars, fedVars,
                           ai_summarizer, clock>>

\* time.time() moves on between two calls.
Tick ==
    /\ clock < MaxClock
    /\ clock' = clock + 1
    /\ UNCHANGED <<pipeVars, hybVars, nodeVars, fedVars,
                   ai_summarizer, cache, work, answer>>

NextCache == GetRealWorldContext \/ Tick

SpecCache == InitCache /\ [][NextCache]_vars

\* The entry stored for a (query, language) is younger than cache_timeout.
Fresh(query, language) ==
    /\ CacheKey(query, language) \in DOMAIN cache
    /\ clock - cache[CacheKey(query, language)].timestamp < CacheTimeout

\* The entry stored for a (query, language) is as old as cache_timeout or older.
Expired(query, language) ==
    /\ CacheKey(query, language) \in DOMAIN cache
    /\ clock - cache[CacheKey(query, language)].timestamp >= CacheTimeout

\* A get_real_world_context call is made and returns or raises.
Answered == answer' # answer \/ work' # work

\* C30: a get_real_world_context call made less than cache_timeout after the
\* entry of its (query, language) was stored returns the stored result, which
\* is one of that query and language, with no new search or summarization; a
\* call made after the timeout that returns has searched again and replaced
\* the entry; every uncached call that returns, also one whose search found
\* nothing, has stored what it returns under the current time.
C30_SearchContextCache ==
    /\ [][(Answered /\ Fresh(answer'.query, answer'.language)) =>
            /\ answer'.origin = "cache"
            /\ answer'.result = cache[CacheKey(answer'.query, answer'.language)].result
            /\ answer'.result.query = answer'.query
            /\ answer'.result.language = answer'.language
            /\ work' = work
            /\ cache' = cache]_vars
    /\ [][(Answered /\ Expired(answer'.query, answer'.language)) =>
            /\ work'.searches = work.searches + 1
            /\ answer'.origin # "raised" =>
                  /\ answer'.result.serial = work'.searches
                  /\ cache'[CacheKey(answer'.query, answer'.language)].result
                        = answer'.result]_vars
    /\ [][(Answered /\ answer'.origin = "search") =>
            /\ CacheKey(answer'.query, answer'.language) \in DOMAIN cache'
            /\ cache'[CacheKey(answer'.query, answer'.language)]
                  = [result |-> answer'.result, timestamp |-> clock]
            /\ work'.summaries = work.summaries + (IF ai_summarizer THEN 1 ELSE 0)]_vars

\* C30 witness: the entry stored by a search that found nothing, not the first
\* search made, is returned from the cache at a later time past the first
\* timeout, while the query that holds "_" has an entry of its own.
C30_Witness ==
    /\ answer.origin = "cache"
    /\ answer.result.total_results = 0
    /\ answer.result.serial >= 2
    /\ answer.query = <<"holi">>
    /\ clock > cache[CacheKey(answer.query, answer.language)].timestamp
    /\ clock >= CacheTimeout
    /\ \E language \in CacheLanguages :
          CacheKey(<<"holi", "_", "hindi">>, language) \in DOMAIN cache

=============================================================================
